---- MODULE Spec2Model ----
(***************************************************************************)
(* HolyDB: the filesystem-backed storage engine (pkg/storage) and the      *)
(* SigV4 request validator (internal/server/auth.go).                      *)
(*                                                                         *)
(* Strings are TLA+ strings (TLC evaluates Len, \o, SubSeq, Head and Tail  *)
(* on them), so names such as "part.10" are built, tested for a prefix and *)
(* sorted the way the Go code does it.                                     *)
(***************************************************************************)
EXTENDS Integers, Sequences, FiniteSets, TLC

VARIABLES
    fs,      \* the filesystem under LocalStorage.Root
    procs,   \* the storage calls in progress, one record per caller
    last,    \* the storage call that finished last (its inputs and results)
    nops,    \* number of storage calls begun so far
    hist,    \* history kept for the properties of SpecSteps (see NoHist)
    sessions,\* the <<bucket, upload ID>> pairs StartMultipart has returned and
             \* no CompleteMultipart or AbortMultipart has ended since
    req,     \* the HTTP request at the validator
    sent,    \* the request as its client built it, and what was changed since
    resp,    \* what the validator and the downstream handler did with it
    cfg,     \* the validator's AuthConfig and the root credential pair
    clock    \* the server's current time (day and second of the day)

authVars == <<req, sent, resp, cfg, clock>>
vars == <<fs, procs, last, nops, hist, sessions, req, sent, resp, cfg, clock>>

(***************************************************************************)
(* Bounds of the model.                                                    *)
(***************************************************************************)
MaxOps == 4      \* storage calls in one behaviour of Spec
MaxCalls == 3    \* storage calls begun in one behaviour of SpecSteps
MaxRequests == 1 \* requests sent in one behaviour of AuthSpec

(***************************************************************************)
(* Strings: bytes, order, formatting.                                      *)
(***************************************************************************)
Char(s, i) == SubSeq(s, i, i)

\* The printable ASCII characters in code order: 32 (space) to 95, and 97 to
\* 126 (a TLA+ string cannot hold the character 96).
AsciiLow == " !\"#$%&'()*+,-./0123456789:;<=>?@ABCDEFGHIJKLMNOPQRSTUVWXYZ[\\]^_"
AsciiHigh == "abcdefghijklmnopqrstuvwxyz{|}~"

\* A byte above 127: the character stands for the single byte 233 (0xE9).
HighByte == "é"

\* The byte value of a character: the printable ones, tab, newline,
\* carriage return and HighByte.
Code ==
    [c \in {Char(AsciiLow, i) : i \in 1..Len(AsciiLow)}
            \cup {Char(AsciiHigh, i) : i \in 1..Len(AsciiHigh)}
            \cup {"\t", "\n", "\r", HighByte} |->
        IF c = "\t" THEN 9
        ELSE IF c = HighByte THEN 233
        ELSE IF c = "\n" THEN 10
        ELSE IF c = "\r" THEN 13
        ELSE IF \E i \in 1..Len(AsciiLow) : Char(AsciiLow, i) = c
        THEN 31 + (CHOOSE i \in 1..Len(AsciiLow) : Char(AsciiLow, i) = c)
        ELSE 96 + (CHOOSE i \in 1..Len(AsciiHigh) : Char(AsciiHigh, i) = c)]

\* The character of a byte value (of a value Code gives).
Chr(n) == CHOOSE c \in DOMAIN Code : Code[c] = n

HasPrefix(s, prefix) ==
    Len(s) >= Len(prefix) /\ SubSeq(s, 1, Len(prefix)) = prefix

HasSuffix(s, suffix) ==
    Len(s) >= Len(suffix) /\ SubSeq(s, Len(s) - Len(suffix) + 1, Len(s)) = suffix

\* Go's < on strings: bytewise lexical order.
RECURSIVE StrLess(_, _)
StrLess(a, b) ==
    IF b = "" THEN FALSE
    ELSE IF a = "" THEN TRUE
    ELSE IF Head(a) = Head(b) THEN StrLess(Tail(a), Tail(b))
    ELSE Code[Head(a)] < Code[Head(b)]

\* sort.Strings on a list without duplicates: ascending in StrLess.
RECURSIVE SortStrings(_)
SortStrings(S) ==
    IF S = {} THEN <<>>
    ELSE LET m == CHOOSE x \in S : \A y \in S \ {x} : StrLess(x, y)
         IN  <<m>> \o SortStrings(S \ {m})

Digits == "0123456789"

RECURSIVE NatStr(_)
NatStr(n) ==
    IF n < 10 THEN Char(Digits, n + 1)
    ELSE NatStr(n \div 10) \o Char(Digits, (n % 10) + 1)

\* fmt.Sprintf("%d", n)
Itoa(n) == IF n < 0 THEN "-" \o NatStr(-n) ELSE NatStr(n)

\* strings.IndexByte, 1-based; 0 when c does not occur.
IndexByte(s, c) ==
    IF \E i \in 1..Len(s) : Char(s, i) = c
    THEN CHOOSE i \in 1..Len(s) :
             Char(s, i) = c /\ \A j \in 1..(i - 1) : Char(s, j) # c
    ELSE 0

\* strings.Split(s, c) for a one-byte separator.
RECURSIVE Split(_, _)
Split(s, c) ==
    LET i == IndexByte(s, c)
    IN  IF i = 0 THEN <<s>>
        ELSE <<SubSeq(s, 1, i - 1)>> \o Split(SubSeq(s, i + 1, Len(s)), c)

RECURSIVE JoinStrings(_, _)
JoinStrings(seq, sep) ==
    IF seq = <<>> THEN ""
    ELSE IF Len(seq) = 1 THEN seq[1]
    ELSE seq[1] \o sep \o JoinStrings(Tail(seq), sep)

RECURSIVE Concat(_)
Concat(seq) == IF seq = <<>> THEN "" ELSE Head(seq) \o Concat(Tail(seq))

\* strings.SplitN(s, c, 2)
SplitN2(s, c) ==
    LET i == IndexByte(s, c)
    IN  IF i = 0 THEN <<s>> ELSE <<SubSeq(s, 1, i - 1), SubSeq(s, i + 1, Len(s))>>

IsSpace(c) == c \in {" ", "\t", "\n", "\r"}

RECURSIVE TrimLeft(_)
TrimLeft(s) == IF s # "" /\ IsSpace(Head(s)) THEN TrimLeft(Tail(s)) ELSE s

RECURSIVE TrimRight(_)
TrimRight(s) ==
    IF s # "" /\ IsSpace(Char(s, Len(s))) THEN TrimRight(SubSeq(s, 1, Len(s) - 1))
    ELSE s

\* strings.TrimSpace
TrimSpace(s) == TrimRight(TrimLeft(s))

\* strings.Fields: the maximal runs of non-space characters.
RECURSIVE Fields(_)
Fields(s) ==
    LET t == TrimSpace(s)
        W == {i \in 1..Len(t) : IsSpace(Char(t, i))}
    IN  IF t = "" THEN <<>>
        ELSE IF W = {} THEN <<t>>
        ELSE LET i == CHOOSE w \in W : \A v \in W : w <= v
             IN  <<SubSeq(t, 1, i - 1)>> \o Fields(SubSeq(t, i + 1, Len(t)))

UpperLetters == "ABCDEFGHIJKLMNOPQRSTUVWXYZ"
LowerLetters == "abcdefghijklmnopqrstuvwxyz"

LowerChar(c) ==
    LET i == IndexByte(UpperLetters, c)
    IN  IF i = 0 THEN c ELSE Char(LowerLetters, i)

UpperChar(c) ==
    LET i == IndexByte(LowerLetters, c)
    IN  IF i = 0 THEN c ELSE Char(UpperLetters, i)

\* strings.ToLower, strings.ToUpper (ASCII)
ToLower(s) == Concat([i \in 1..Len(s) |-> LowerChar(Char(s, i))])
ToUpper(s) == Concat([i \in 1..Len(s) |-> UpperChar(Char(s, i))])

\* http.CanonicalHeaderKey for a name of letters, digits and "-": the first
\* letter and every letter after a "-" in upper case, the others in lower.
CanonicalHeaderKey(s) ==
    Concat([i \in 1..Len(s) |->
               IF i = 1 \/ Char(s, i - 1) = "-" THEN UpperChar(Char(s, i))
               ELSE LowerChar(Char(s, i))])

\* sort.Strings on a list: ascending in StrLess, duplicates kept.
RECURSIVE SortStringList(_)
SortStringList(seq) ==
    IF seq = <<>> THEN <<>>
    ELSE LET i == CHOOSE j \in 1..Len(seq) :
                     \A k \in 1..Len(seq) : ~StrLess(seq[k], seq[j])
         IN  <<seq[i]>> \o SortStringList(SubSeq(seq, 1, i - 1) \o SubSeq(seq, i + 1, Len(seq)))

HexDigits == "0123456789abcdef"

\* hex.EncodeToString of one byte b, of the bytes of s.
HexByte(b) == Char(HexDigits, (b \div 16) + 1) \o Char(HexDigits, (b % 16) + 1)

HexOf == [c \in DOMAIN Code |-> HexByte(Code[c])]

RECURSIVE HexEncode(_)
HexEncode(s) ==
    IF s = "" THEN ""
    ELSE IF Len(s) = 1 THEN HexOf[s]
    ELSE HexEncode(SubSeq(s, 1, Len(s) \div 2))
            \o HexEncode(SubSeq(s, (Len(s) \div 2) + 1, Len(s)))

IsDigits(s) == \A i \in 1..Len(s) : IndexByte(Digits, Char(s, i)) # 0

\* The number a string of digits denotes.
RECURSIVE Atoi(_)
Atoi(s) ==
    IF s = "" THEN 0
    ELSE 10 * Atoi(SubSeq(s, 1, Len(s) - 1)) + IndexByte(Digits, Char(s, Len(s))) - 1

(***************************************************************************)
(* Paths.  A path is the sequence of its components below "/".             *)
(***************************************************************************)
Root == <<"data">>

\* filepath.Clean applied to base + "/" + rel, for an absolute, clean base.
RECURSIVE CleanInto(_, _)
CleanInto(base, comps) ==
    IF comps = <<>> THEN base
    ELSE LET c == Head(comps)
         IN  IF c = "" \/ c = "." THEN CleanInto(base, Tail(comps))
             ELSE IF c = ".."
                  THEN CleanInto(IF base = <<>> THEN base
                                 ELSE SubSeq(base, 1, Len(base) - 1), Tail(comps))
             ELSE CleanInto(Append(base, c), Tail(comps))

\* filepath.Join(base, rel)
JoinPath(base, rel) == CleanInto(base, Split(rel, "/"))

Parent(p) == SubSeq(p, 1, Len(p) - 1)
Base(p) == p[Len(p)]
Prefixes(p) == {SubSeq(p, 1, n) : n \in 0..Len(p)}
IsUnder(q, p) == Len(q) >= Len(p) /\ SubSeq(q, 1, Len(p)) = p

(***************************************************************************)
(* The filesystem.                                                         *)
(*   dirs     the directories                                              *)
(*   files    path -> content of every linked regular file                 *)
(*   open     handle -> the file it refers to; a handle follows its file   *)
(*            through a rename and keeps it when the name is unlinked or   *)
(*            replaced (the file is then an orphan)                        *)
(*   orphans  number -> content of every unlinked file still held open     *)
(* A handle is <<caller, slot>>.                                           *)
(***************************************************************************)
EmptyFS ==
    [dirs |-> Prefixes(Root), files |-> <<>>, open |-> <<>>, orphans |-> <<>>]

Res(f, e) == [fs |-> f, err |-> e]

Drop(f, S) == [x \in DOMAIN f \ S |-> f[x]]
Put1(f, x, v) == [y \in DOMAIN f \cup {x} |-> IF y = x THEN v ELSE f[y]]

LinkedRef(p) == [linked |-> TRUE, path |-> p, orph |-> 0]
OrphanRef(n) == [linked |-> FALSE, path |-> <<>>, orph |-> n]

\* Orphans nobody holds open are gone.
Collect(f) ==
    [f EXCEPT !.orphans =
        [n \in {m \in DOMAIN f.orphans :
                   \E h \in DOMAIN f.open : f.open[h] = OrphanRef(m)}
           |-> f.orphans[n]]]

\* The files under the names in gone lose their names; the handles on them
\* keep them.
RECURSIVE Unlink(_, _)
Unlink(f, gone) ==
    IF gone = {} THEN Collect(f)
    ELSE LET p == CHOOSE q \in gone : TRUE
             n == CHOOSE m \in 1..(Cardinality(DOMAIN f.orphans) + 1) :
                      m \notin DOMAIN f.orphans
             held == \E h \in DOMAIN f.open : f.open[h] = LinkedRef(p)
             g == [f EXCEPT
                     !.files = Drop(@, {p}),
                     !.orphans = IF held THEN Put1(@, n, f.files[p]) ELSE @,
                     !.open = [h \in DOMAIN @ |->
                                 IF @[h] = LinkedRef(p) THEN OrphanRef(n) ELSE @[h]]]
         IN  Unlink(g, gone \ {p})

\* os.MkdirAll
MkdirAll(f, p) ==
    IF \E q \in Prefixes(p) : q \in DOMAIN f.files
    THEN Res(f, "ENOTDIR")
    ELSE Res([f EXCEPT !.dirs = @ \cup Prefixes(p)], "")

\* os.Create / os.WriteFile's open: O_CREATE|O_TRUNC, the handle is h.
OpenTrunc(f, h, p) ==
    IF p \in f.dirs THEN Res(f, "EISDIR")
    ELSE IF Parent(p) \notin f.dirs THEN Res(f, "ENOENT")
    ELSE Res([f EXCEPT !.files = Put1(@, p, ""),
                       !.open = Put1(@, h, LinkedRef(p))], "")

\* os.Open of a regular file
OpenRead(f, h, p) ==
    IF p \notin DOMAIN f.files THEN Res(f, "ENOENT")
    ELSE Res([f EXCEPT !.open = Put1(@, h, LinkedRef(p))], "")

ContentOf(f, h) ==
    IF f.open[h].linked THEN f.files[f.open[h].path]
    ELSE f.orphans[f.open[h].orph]

\* One write of bytes at offset 0 through handle h.
WriteAll(f, h, bytes) ==
    LET old == ContentOf(f, h)
        new == bytes \o SubSeq(old, Len(bytes) + 1, Len(old))
    IN  IF f.open[h].linked
        THEN [f EXCEPT !.files[f.open[h].path] = new]
        ELSE [f EXCEPT !.orphans[f.open[h].orph] = new]

Close(f, h) == Collect([f EXCEPT !.open = Drop(@, {h})])

CloseAll(f, H) == Collect([f EXCEPT !.open = Drop(@, H)])

\* os.Rename of a regular file
Rename(f, old, new) ==
    IF old \notin DOMAIN f.files THEN Res(f, "ENOENT")
    ELSE IF new \in f.dirs THEN Res(f, "EEXIST")
    ELSE IF Parent(new) \notin f.dirs THEN Res(f, "ENOENT")
    ELSE IF old = new THEN Res(f, "")
    ELSE LET g == IF new \in DOMAIN f.files THEN Unlink(f, {new}) ELSE f
             c == g.files[old]
         IN  Res([g EXCEPT
                    !.files = Put1(Drop(@, {old}), new, c),
                    !.open = [h \in DOMAIN @ |->
                                IF @[h] = LinkedRef(old) THEN LinkedRef(new) ELSE @[h]]],
                 "")

\* os.RemoveAll: the whole subtree; no error when nothing is there.
RemoveAll(f, p) ==
    LET g == Unlink(f, {q \in DOMAIN f.files : IsUnder(q, p)})
    IN  [g EXCEPT !.dirs = {d \in @ : ~IsUnder(d, p)}]

\* os.ReadDir: the entries of directory p, sorted by name.
ReadDir(f, p) ==
    IF p \notin f.dirs
    THEN [names |-> <<>>, err |-> "ENOENT"]
    ELSE [names |-> SortStrings({Base(q) : q \in {r \in DOMAIN f.files \cup f.dirs :
                                                   Len(r) = Len(p) + 1 /\ Parent(r) = p}}),
          err |-> ""]

(***************************************************************************)
(* Metadata and its JSON form.  A Metadata value is [isNil, kv]: Go's nil  *)
(* map or a map string -> string.  The keys and values of the model hold   *)
(* no character that JSON escapes.                                         *)
(***************************************************************************)
NilMeta == [isNil |-> TRUE, kv |-> <<>>]
MetaOf(kv) == [isNil |-> FALSE, kv |-> kv]

Quote(s) == "\"" \o s \o "\""

\* json.Marshal of a map[string]string: the keys in sorted order.
MarshalMap(kv) ==
    LET keys == SortStrings(DOMAIN kv)
    IN  "{" \o JoinStrings([i \in 1..Len(keys) |->
                               Quote(keys[i]) \o ":" \o Quote(kv[keys[i]])], ",") \o "}"

\* Metadata.MarshalJSON
MarshalMeta(m) == IF m.isNil THEN "null" ELSE MarshalMap(m.kv)

\* One member "k":"v" of a JSON object, as strings.Split(item, "\"") sees it.
MemberOK(item) ==
    LET t == Split(item, "\"")
    IN  Len(t) = 5 /\ t[1] = "" /\ t[3] = ":" /\ t[5] = ""

\* Metadata.UnmarshalJSON: a JSON object of string members, or null.
UnmarshalMeta(data) ==
    IF data = "null" THEN [meta |-> NilMeta, err |-> ""]
    ELSE IF Len(data) < 2 \/ Char(data, 1) # "{" \/ Char(data, Len(data)) # "}"
    THEN [meta |-> NilMeta, err |-> "EJSON"]
    ELSE LET inner == SubSeq(data, 2, Len(data) - 1)
             items == IF inner = "" THEN <<>> ELSE Split(inner, ",")
         IN  IF \E i \in 1..Len(items) : ~MemberOK(items[i])
             THEN [meta |-> NilMeta, err |-> "EJSON"]
             ELSE LET key(i) == Split(items[i], "\"")[2]
                      val(i) == Split(items[i], "\"")[4]
                      lastOf(k) == CHOOSE i \in 1..Len(items) :
                                      /\ key(i) = k
                                      /\ \A j \in 1..Len(items) : key(j) = k => j <= i
                  IN  [meta |-> MetaOf([k \in {key(i) : i \in 1..Len(items)} |->
                                           val(lastOf(k))]),
                       err |-> ""]

(***************************************************************************)
(* A storage call in progress: the method, its arguments, its position     *)
(* (pc) and its locals.  pc = "done" when it has returned.                 *)
(***************************************************************************)
Idle ==
    [op |-> "idle", pc |-> "done",
     bucket |-> "", key |-> "", uploadID |-> "", partNumber |-> 0,
     body |-> "", meta |-> NilMeta,
     rnd |-> <<>>,        \* the random suffixes os.MkdirTemp draws, in order
     parts |-> <<>>,      \* the part names collected from a directory
     i |-> 0,             \* loop index over parts
     closed |-> <<>>,     \* Get: the readers Close was called on, in order
     err |-> "",          \* the returned error, "" for nil
     data |-> "",         \* bytes read so far / returned
     outMeta |-> NilMeta, \* the returned Metadata
     id |-> "",           \* the returned upload ID
     dir |-> <<>>,        \* filepath.Join(s.Root, bucket)
     objDir |-> <<>>,     \* filepath.Join(dir, key)
     partDir |-> <<>>,    \* filepath.Join(dir, ".multipart", uploadID)
     outPath |-> <<>>,    \* Reconstruct's outPath
     includeKeys |-> <<>>,\* Reconstruct's includeKeys
     header |-> <<>>,     \* Reconstruct's header map
     prefix |-> "",       \* List's prefix
     bmeta |-> [CapacityBytes |-> 0, RetentionDays |-> 0],
                          \* the BucketMetadata given or returned
     list |-> <<>>,       \* the keys List returned (<<>> for nil)
     stats |-> [ObjectCount |-> 0, UsedBytes |-> 0, CapacityBytes |-> 0]]
                          \* the Stats returned

Call(op, bucket, key, uploadID, partNumber, body, meta, rnd, first) ==
    [Idle EXCEPT !.op = op, !.pc = first, !.bucket = bucket, !.key = key,
                 !.uploadID = uploadID, !.partNumber = partNumber,
                 !.body = body, !.meta = meta, !.rnd = rnd,
                 !.dir = JoinPath(Root, bucket),
                 !.objDir = JoinPath(JoinPath(Root, bucket), key),
                 !.partDir = JoinPath(JoinPath(JoinPath(Root, bucket), ".multipart"),
                                      uploadID)]

Goto(f, p, pc) == [fs |-> f, p |-> [p EXCEPT !.pc = pc]]
Fail(f, p, e) == [fs |-> f, p |-> [p EXCEPT !.pc = "done", !.err = e]]
Finish(f, p) == [fs |-> f, p |-> [p EXCEPT !.pc = "done"]]

\* ensureBucketDir's path, the object directory, the staging directory.
BucketDir(p) == p.dir
ObjDir(p) == p.objDir
PartDir(p) == p.partDir

\* PartNames without its test of the "part." prefix: every regular file of
\* the directory counts as a part.
PartNamesUnfiltered(f, dir, names) ==
    SortStrings({names[i] : i \in {j \in 1..Len(names) :
                    Append(dir, names[j]) \notin f.dirs}})

\* The names of a directory's regular files that start with "part.", after
\* sort.Strings (all have the same directory, so the names decide).
PartNames(f, dir, names) ==
    SortStrings({names[i] : i \in {j \in 1..Len(names) :
                    /\ Append(dir, names[j]) \notin f.dirs
                    /\ HasPrefix(names[j], "part.")}})

\* ensureBucketDir making the bucket directory with os.Mkdir, which fails
\* when the directory exists.
EnsureBucketStepMkdir(f, p, next) ==
    IF BucketDir(p) \in f.dirs THEN Fail(f, p, "EEXIST")
    ELSE Goto(MkdirAll(f, BucketDir(p)).fs, p, next)

\* ensureBucketDir, as the first step of a method.
EnsureBucketStep(f, p, next) ==
    LET r == MkdirAll(f, BucketDir(p))
    IN  IF r.err # "" THEN Fail(f, p, r.err) ELSE Goto(r.fs, p, next)

\* os.MkdirAll(objDir)
MkObjStep(f, p, next) ==
    LET r == MkdirAll(f, ObjDir(p))
    IN  IF r.err # "" THEN Fail(f, p, r.err) ELSE Goto(r.fs, p, next)

\* writeMeta writing data.meta in place: os.WriteFile of data.meta itself
\* and no rename.
WriteMetaInPlace(f, p, h, after) ==
    CASE p.pc = "meta_open" ->
           LET r == OpenTrunc(f, h, Append(ObjDir(p), "data.meta"))
           IN  IF r.err # "" THEN Fail(f, p, r.err)
               ELSE Goto(r.fs, p, "meta_write")
      [] p.pc = "meta_write" ->
           Goto(Close(WriteAll(f, h, MarshalMeta(p.meta)), h), p, "meta_rename")
      [] p.pc = "meta_rename" -> Goto(f, p, after)

\* writeMeta(objDir, meta): os.WriteFile of data.meta.tmp (open with
\* truncation, write, close), then os.Rename onto data.meta.
WriteMetaStep(f, p, h, after) ==
    LET tmp == Append(ObjDir(p), "data.meta.tmp")
    IN  CASE p.pc = "meta_open" ->
               LET r == OpenTrunc(f, h, tmp)
               IN  IF r.err # "" THEN Fail(f, p, r.err)
                   ELSE Goto(r.fs, p, "meta_write")
          [] p.pc = "meta_write" ->
               Goto(Close(WriteAll(f, h, MarshalMeta(p.meta)), h), p, "meta_rename")
          [] p.pc = "meta_rename" ->
               LET r == Rename(f, tmp, Append(ObjDir(p), "data.meta"))
               IN  IF r.err # "" THEN Fail(f, p, r.err)
                   ELSE Goto(r.fs, p, after)

\* PutWithMetadata calling writeMeta before it creates and writes part.1.
PutWithMetadataStepMetaFirst(f, p, h) ==
    CASE p.pc = "mkbucket" -> EnsureBucketStep(f, p, "mkobj")
      [] p.pc = "mkobj" -> MkObjStep(f, p, "meta_open")
      [] p.pc = "create" ->
           LET r == OpenTrunc(f, h, Append(ObjDir(p), "part.1"))
           IN  IF r.err # "" THEN Fail(f, p, r.err) ELSE Goto(r.fs, p, "copy")
      [] p.pc = "copy" ->
           Finish(Close(WriteAll(f, h, p.body), h), p)
      [] OTHER -> WriteMetaStep(f, p, h, "create")

\* LocalStorage.PutWithMetadata (and Put, which calls it)
PutWithMetadataStep(f, p, h) ==
    CASE p.pc = "mkbucket" -> EnsureBucketStep(f, p, "mkobj")
      [] p.pc = "mkobj" -> MkObjStep(f, p, "create")
      [] p.pc = "create" ->
           LET r == OpenTrunc(f, h, Append(ObjDir(p), "part.1"))
           IN  IF r.err # "" THEN Fail(f, p, r.err) ELSE Goto(r.fs, p, "copy")
      [] p.pc = "copy" ->
           Goto(Close(WriteAll(f, h, p.body), h), p, "meta_open")
      [] OTHER -> WriteMetaStep(f, p, h, "done")

\* LocalStorage.PutMetadata
PutMetadataStep(f, p, h) ==
    CASE p.pc = "mkbucket" -> EnsureBucketStep(f, p, "mkobj")
      [] p.pc = "mkobj" -> MkObjStep(f, p, "meta_open")
      [] OTHER -> WriteMetaStep(f, p, h, "done")

\* LocalStorage.GetMetadata: os.ReadFile (open, read until a read returns
\* no bytes), then json.Unmarshal.
GetMetadataStep(f, p, h) ==
    CASE p.pc = "open" ->
           LET r == OpenRead(f, h, Append(ObjDir(p), "data.meta"))
           IN  IF r.err # "" THEN Fail(f, p, r.err) ELSE Goto(r.fs, p, "read")
      [] p.pc = "read" ->
           LET c == ContentOf(f, h)
               chunk == SubSeq(c, Len(p.data) + 1, Len(c))
               u == UnmarshalMeta(p.data)
           IN  IF chunk # ""
               THEN Goto(f, [p EXCEPT !.data = @ \o chunk], "read")
               ELSE IF u.err # "" THEN Fail(Close(f, h), [p EXCEPT !.data = ""], u.err)
               ELSE Finish(Close(f, h), [p EXCEPT !.data = "", !.outMeta = u.meta])

\* Get returning the error of os.Open without closing the readers it has
\* opened.
GetStepKeepingReaders(f, p, c) ==
    CASE p.pc = "readdir" ->
           LET r == ReadDir(f, ObjDir(p))
               parts == PartNames(f, ObjDir(p), r.names)
           IN  IF r.err # "" THEN Fail(f, p, r.err)
               ELSE IF parts = <<>> THEN Fail(f, p, "no parts found")
               ELSE Goto(f, [p EXCEPT !.parts = parts, !.i = 1], "open")
      [] p.pc = "open" ->
           LET r == OpenRead(f, <<c, p.i>>, Append(ObjDir(p), p.parts[p.i]))
           IN  IF r.err # "" THEN Fail(f, p, r.err)
               ELSE IF p.i = Len(p.parts)
               THEN Goto(r.fs, [p EXCEPT !.i = 1], "read")
               ELSE Goto(r.fs, [p EXCEPT !.i = @ + 1], "open")
      [] p.pc = "read" ->
           LET q == [p EXCEPT !.data = @ \o ContentOf(f, <<c, p.i>>), !.i = @ + 1,
                              !.closed = Append(@, p.i)]
               g == Close(f, <<c, p.i>>)
           IN  IF p.i = Len(p.parts) THEN Finish(g, q) ELSE Goto(g, q, "read")

\* LocalStorage.Get, then the caller reading the stream to EOF
\* (multiReadCloser.Read): reader i is <<c, i>>, and the readers left in
\* m.readers are those from p.i on.
GetStep(f, p, c) ==
    CASE p.pc = "readdir" ->
           LET r == ReadDir(f, ObjDir(p))
               parts == PartNames(f, ObjDir(p), r.names)
           IN  IF r.err # "" THEN Fail(f, p, r.err)
               ELSE IF parts = <<>> THEN Fail(f, p, "no parts found")
               ELSE Goto(f, [p EXCEPT !.parts = parts, !.i = 1], "open")
      [] p.pc = "open" ->
           LET r == OpenRead(f, <<c, p.i>>, Append(ObjDir(p), p.parts[p.i]))
           IN  IF r.err # ""
               THEN Fail(CloseAll(f, {<<c, j>> : j \in 1..(p.i - 1)}),
                         [p EXCEPT !.closed = [j \in 1..(p.i - 1) |-> j]], r.err)
               ELSE IF p.i = Len(p.parts)
               THEN Goto(r.fs, [p EXCEPT !.i = 1], "read")
               ELSE Goto(r.fs, [p EXCEPT !.i = @ + 1], "open")
      [] p.pc = "read" ->
           LET q == [p EXCEPT !.data = @ \o ContentOf(f, <<c, p.i>>), !.i = @ + 1,
                              !.closed = Append(@, p.i)]
               g == Close(f, <<c, p.i>>)
           IN  IF p.i = Len(p.parts) THEN Finish(g, q) ELSE Goto(g, q, "read")

\* multiReadCloser.Close: Close on every reader left in m.readers, then
\* m.readers = nil.
multiReadCloserClose(f, p, c) ==
    LET left == [j \in 1..(Len(p.parts) + 1 - p.i) |-> p.i + j - 1]
    IN  [fs |-> CloseAll(f, {<<c, left[j]>> : j \in 1..Len(left)}),
         p |-> [p EXCEPT !.closed = @ \o left, !.i = Len(p.parts) + 1,
                         !.pc = "closed"]]

\* lnBuf: the 8 bytes of ln, most significant first (lnBuf[7-i] = byte(ln >>
\* 8i)).
\* ln >> bits, for bits a multiple of 8.
RECURSIVE Shr(_, _)
Shr(ln, bits) == IF bits = 0 THEN ln ELSE Shr(ln \div 256, bits - 8)

BigEndian8(ln) == [j \in 1..8 |-> Shr(ln, (8 - j) * 8) % 256]

\* The bytes of a string, as numbers.
Bytes(s) == [i \in 1..Len(s) |-> Code[Char(s, i)]]

\* os.Create of Reconstruct's output file.  Its length prefix holds bytes
\* that are no printable character, so its content is a sequence of byte
\* values, not a string.
CreateBinary(f, h, p) ==
    LET r == OpenTrunc(f, h, p)
    IN  IF r.err # "" THEN r ELSE Res([r.fs EXCEPT !.files[p] = <<>>], "")

\* A write at the offset of handle h, the only writer of its file since the
\* truncating open: the bytes go to the end.
WriteNext(f, h, bytes) ==
    IF f.open[h].linked
    THEN [f EXCEPT !.files[f.open[h].path] = @ \o bytes]
    ELSE [f EXCEPT !.orphans[f.open[h].orph] = @ \o bytes]

\* The header map of Reconstruct: the included keys that meta has, and
\* "filename" whenever meta has it.
HeaderOf(meta, includeKeys) ==
    [k \in {x \in DOMAIN meta.kv :
                x = "filename" \/ \E i \in 1..Len(includeKeys) : includeKeys[i] = x}
        |-> meta.kv[k]]

\* Reconstruct after the step s of its GetMetadata call: once the metadata
\* is read, the header map is built from it.
WithHeader(s) ==
    IF s.p.pc = "done" /\ s.p.err = ""
    THEN Goto(s.fs, [s.p EXCEPT !.header = HeaderOf(s.p.outMeta, s.p.includeKeys)],
              "mkoutdir")
    ELSE s

\* LocalStorage.Reconstruct.  The output file is handle <<c, 1>> (opened
\* after GetMetadata has closed its own), the part being copied <<c, 2>>.
ReconstructStep(f, p, c) ==
    LET of == <<c, 1>>
        in == <<c, 2>>
    IN  CASE p.pc \in {"open", "read"} -> WithHeader(GetMetadataStep(f, p, of))
          [] p.pc = "mkoutdir" ->
               LET r == MkdirAll(f, Parent(p.outPath))
               IN  IF r.err # "" THEN Fail(f, p, r.err) ELSE Goto(r.fs, p, "create")
          [] p.pc = "create" ->
               LET r == CreateBinary(f, of, p.outPath)
               IN  IF r.err # "" THEN Fail(f, p, r.err) ELSE Goto(r.fs, p, "writelen")
          [] p.pc = "writelen" ->
               Goto(WriteNext(f, of, BigEndian8(Len(MarshalMap(p.header)))), p,
                    "writehdr")
          [] p.pc = "writehdr" ->
               Goto(WriteNext(f, of, Bytes(MarshalMap(p.header))), p, "readdir")
          [] p.pc = "readdir" ->
               LET r == ReadDir(f, ObjDir(p))
                   parts == PartNames(f, ObjDir(p), r.names)
               IN  IF r.err # "" THEN Fail(Close(f, of), p, r.err)
                   ELSE IF parts = <<>> THEN Finish(Close(f, of), p)
                   ELSE Goto(f, [p EXCEPT !.parts = parts, !.i = 1], "openpart")
          [] p.pc = "openpart" ->
               LET r == OpenRead(f, in, Append(ObjDir(p), p.parts[p.i]))
               IN  IF r.err # "" THEN Fail(Close(f, of), p, r.err)
                   ELSE Goto(r.fs, p, "copypart")
          [] p.pc = "copypart" ->
               LET g == Close(WriteNext(f, of, Bytes(ContentOf(f, in))), in)
               IN  IF p.i = Len(p.parts) THEN Finish(Close(g, of), p)
                   ELSE Goto(g, [p EXCEPT !.i = @ + 1], "openpart")

\* Delete creating the bucket first, as the writing methods do.
DeleteStepEnsuringBucket(f, p) ==
    Finish(RemoveAll(MkdirAll(f, BucketDir(p)).fs, ObjDir(p)), p)

\* LocalStorage.Delete
DeleteStep(f, p) == Finish(RemoveAll(f, ObjDir(p)), p)

\* StartMultipart taking the first random draw, whether or not a directory
\* of that name exists.
StartMultipartStepFirstDraw(f, p) ==
    LET mp == JoinPath(BucketDir(p), ".multipart")
    IN  CASE p.pc = "mkbucket" -> EnsureBucketStep(f, p, "mkmultipart")
          [] p.pc = "mkmultipart" ->
               LET r == MkdirAll(f, mp)
               IN  IF r.err # "" THEN Fail(f, p, r.err) ELSE Goto(r.fs, p, "mkdtemp")
          [] p.pc = "mkdtemp" ->
               LET d == Append(mp, "upload-" \o p.rnd[1])
               IN  IF mp \notin f.dirs THEN Fail(f, p, "ENOENT")
                   ELSE Finish([f EXCEPT !.dirs = @ \cup {d}],
                               [p EXCEPT !.id = Base(d)])

\* LocalStorage.StartMultipart.  os.MkdirTemp makes the first directory
\* "upload-<random>" that does not exist yet.
StartMultipartStep(f, p) ==
    LET mp == JoinPath(BucketDir(p), ".multipart")
    IN  CASE p.pc = "mkbucket" -> EnsureBucketStep(f, p, "mkmultipart")
          [] p.pc = "mkmultipart" ->
               LET r == MkdirAll(f, mp)
               IN  IF r.err # "" THEN Fail(f, p, r.err) ELSE Goto(r.fs, p, "mkdtemp")
          [] p.pc = "mkdtemp" ->
               LET free == {i \in 1..Len(p.rnd) :
                              LET d == Append(mp, "upload-" \o p.rnd[i])
                              IN  d \notin f.dirs /\ d \notin DOMAIN f.files}
               IN  IF mp \notin f.dirs THEN Fail(f, p, "ENOENT")
                   ELSE IF free = {} THEN Fail(f, p, "EEXIST")
                   ELSE LET i == CHOOSE j \in free : \A k \in free : j <= k
                            d == Append(mp, "upload-" \o p.rnd[i])
                        IN  Finish([f EXCEPT !.dirs = @ \cup {d}],
                                   [p EXCEPT !.id = Base(d)])

\* UploadPart emptying the staging directory before it writes the part.
UploadPartStepClearingStaging(f, p, h) ==
    CASE p.pc = "mkbucket" -> EnsureBucketStep(f, p, "mkpartdir")
      [] p.pc = "mkpartdir" ->
           LET r == MkdirAll(RemoveAll(f, PartDir(p)), PartDir(p))
           IN  IF r.err # "" THEN Fail(f, p, r.err) ELSE Goto(r.fs, p, "create")
      [] p.pc = "create" ->
           LET r == OpenTrunc(f, h, Append(PartDir(p), "part." \o Itoa(p.partNumber)))
           IN  IF r.err # "" THEN Fail(f, p, r.err) ELSE Goto(r.fs, p, "copy")
      [] p.pc = "copy" ->
           Finish(Close(WriteAll(f, h, p.body), h), p)

\* LocalStorage.UploadPart
UploadPartStep(f, p, h) ==
    CASE p.pc = "mkbucket" -> EnsureBucketStep(f, p, "mkpartdir")
      [] p.pc = "mkpartdir" ->
           LET r == MkdirAll(f, PartDir(p))
           IN  IF r.err # "" THEN Fail(f, p, r.err) ELSE Goto(r.fs, p, "create")
      [] p.pc = "create" ->
           LET r == OpenTrunc(f, h, Append(PartDir(p), "part." \o Itoa(p.partNumber)))
           IN  IF r.err # "" THEN Fail(f, p, r.err) ELSE Goto(r.fs, p, "copy")
      [] p.pc = "copy" ->
           Finish(Close(WriteAll(f, h, p.body), h), p)

\* CompleteMultipart naming the moved parts part.1, part.2, ... in their
\* sorted order instead of keeping their names.
CompleteMultipartStepRenumbering(f, p, h) ==
    CASE p.pc = "mkbucket" -> EnsureBucketStep(f, p, "readdir")
      [] p.pc = "readdir" ->
           LET r == ReadDir(f, PartDir(p))
           IN  IF r.err # "" THEN Fail(f, p, r.err)
               ELSE Goto(f, [p EXCEPT !.parts = PartNames(f, PartDir(p), r.names),
                                      !.i = 1], "mkobj")
      [] p.pc = "mkobj" ->
           MkObjStep(f, p, IF p.parts = <<>> THEN "meta_open" ELSE "rename")
      [] p.pc = "rename" ->
           LET r == Rename(f, Append(PartDir(p), p.parts[p.i]),
                              Append(ObjDir(p), "part." \o Itoa(p.i)))
           IN  IF r.err # "" THEN Fail(f, p, r.err)
               ELSE Goto(r.fs, [p EXCEPT !.i = @ + 1],
                         IF p.i = Len(p.parts) THEN "meta_open" ELSE "rename")
      [] p.pc = "rmstaging" -> Finish(RemoveAll(f, PartDir(p)), p)
      [] OTHER -> WriteMetaStep(f, p, h, "rmstaging")

\* LocalStorage.CompleteMultipart
CompleteMultipartStep(f, p, h) ==
    CASE p.pc = "mkbucket" -> EnsureBucketStep(f, p, "readdir")
      [] p.pc = "readdir" ->
           LET r == ReadDir(f, PartDir(p))
           IN  IF r.err # "" THEN Fail(f, p, r.err)
               ELSE Goto(f, [p EXCEPT !.parts = PartNames(f, PartDir(p), r.names),
                                      !.i = 1], "mkobj")
      [] p.pc = "mkobj" ->
           MkObjStep(f, p, IF p.parts = <<>> THEN "meta_open" ELSE "rename")
      [] p.pc = "rename" ->
           LET r == Rename(f, Append(PartDir(p), p.parts[p.i]),
                              Append(ObjDir(p), p.parts[p.i]))
           IN  IF r.err # "" THEN Fail(f, p, r.err)
               ELSE Goto(r.fs, [p EXCEPT !.i = @ + 1],
                         IF p.i = Len(p.parts) THEN "meta_open" ELSE "rename")
      [] p.pc = "rmstaging" -> Finish(RemoveAll(f, PartDir(p)), p)
      [] OTHER -> WriteMetaStep(f, p, h, "rmstaging")

\* LocalStorage.AbortMultipart
AbortMultipartStep(f, p) ==
    CASE p.pc = "mkbucket" -> EnsureBucketStep(f, p, "removeall")
      [] p.pc = "removeall" -> Finish(RemoveAll(f, PartDir(p)), p)

\* json.Marshal of a BucketMetadata: the fields in declaration order.
MarshalBucketMetadata(bm) ==
    "{" \o Quote("capacity_bytes") \o ":" \o Itoa(bm.CapacityBytes) \o ","
        \o Quote("retention_days") \o ":" \o Itoa(bm.RetentionDays) \o "}"

\* json.Unmarshal into a BucketMetadata: an object whose members are numbers;
\* a field the object does not name keeps its zero value, a name that is no
\* field is ignored, a repeated name takes its last value.
UnmarshalBucketMetadata(data) ==
    LET zero == [CapacityBytes |-> 0, RetentionDays |-> 0]
    IN  IF Len(data) < 2 \/ Char(data, 1) # "{" \/ Char(data, Len(data)) # "}"
        THEN [bm |-> zero, err |-> "EJSON"]
        ELSE LET inner == SubSeq(data, 2, Len(data) - 1)
                 items == IF inner = "" THEN <<>> ELSE Split(inner, ",")
                 member(i) == SplitN2(items[i], ":")
                 ok(i) == /\ Len(member(i)) = 2
                          /\ Len(Split(member(i)[1], "\"")) = 3
                          /\ member(i)[2] # ""
                          /\ IsDigits(member(i)[2])
                 named(k) == {i \in 1..Len(items) : member(i)[1] = Quote(k)}
                 field(k) == IF named(k) = {} THEN 0
                             ELSE Atoi(member(CHOOSE i \in named(k) :
                                                 \A j \in named(k) : j <= i)[2])
             IN  IF \E i \in 1..Len(items) : ~ok(i)
                 THEN [bm |-> zero, err |-> "EJSON"]
                 ELSE [bm |-> [CapacityBytes |-> field("capacity_bytes"),
                               RetentionDays |-> field("retention_days")],
                       err |-> ""]

\* LocalStorage.PutBucketMetadata: .bucket.meta.tmp written, then renamed.
PutBucketMetadataStep(f, p, h) ==
    LET tmp == Append(BucketDir(p), ".bucket.meta.tmp")
    IN  CASE p.pc = "mkbucket" -> EnsureBucketStep(f, p, "create")
          [] p.pc = "create" ->
               LET r == OpenTrunc(f, h, tmp)
               IN  IF r.err # "" THEN Fail(f, p, r.err) ELSE Goto(r.fs, p, "write")
          [] p.pc = "write" ->
               Goto(Close(WriteAll(f, h, MarshalBucketMetadata(p.bmeta)), h), p,
                    "rename")
          [] p.pc = "rename" ->
               LET r == Rename(f, tmp, Append(BucketDir(p), ".bucket.meta"))
               IN  IF r.err # "" THEN Fail(f, p, r.err) ELSE Finish(r.fs, p)

\* LocalStorage.GetBucketMetadata in filesystem state f.
GetBucketMetadata(f, dir) ==
    LET path == Append(dir, ".bucket.meta")
    IN  IF path \notin DOMAIN f.files
        THEN [bm |-> [CapacityBytes |-> 0, RetentionDays |-> 0],
              err |-> IF path \in f.dirs THEN "EISDIR" ELSE "ENOENT"]
        ELSE UnmarshalBucketMetadata(f.files[path])

\* os.Stat(base) does not answer "not exist".
Exists(f, base) == base \in f.dirs \/ base \in DOMAIN f.files

\* The regular files filepath.Walk(base, ...) visits.
WalkFiles(f, base) == {q \in DOMAIN f.files : IsUnder(q, base)}

\* filepath.Rel(base, q), split at the separator.
RelParts(base, q) ==
    IF q = base THEN <<".">> ELSE SubSeq(q, Len(base) + 1, Len(q))

\* The key List's callback collects for the file at relative path parts:
\* filepath.Dir(rel), or rel itself for a file directly in the bucket.
ListedDir(parts) ==
    IF Len(parts) = 1 THEN parts[1]
    ELSE JoinStrings(SubSeq(parts, 1, Len(parts) - 1), "/")

\* LocalStorage.List in filesystem state f: the returned slice, <<>> for nil.
ListOf(f, base, prefix) ==
    IF ~Exists(f, base) THEN <<>>
    ELSE SortStrings({ListedDir(RelParts(base, q)) :
                         q \in {x \in WalkFiles(f, base) :
                                  /\ ~HasPrefix(RelParts(base, x)[1], ".")
                                  /\ \/ prefix = ""
                                     \/ HasPrefix(ListedDir(RelParts(base, x)),
                                                  prefix)}})

\* st.UsedBytes += info.Size() over the files of S that the walk counts.
RECURSIVE UsedBytes(_, _)
UsedBytes(f, S) ==
    IF S = {} THEN 0
    ELSE LET q == CHOOSE x \in S : TRUE
         IN  (IF ~HasPrefix(Base(q), ".") /\ HasPrefix(Base(q), "part.")
              THEN Len(f.files[q]) ELSE 0) + UsedBytes(f, S \ {q})

\* LocalStorage.Stats in filesystem state f.
StatsOf(f, base) ==
    IF ~Exists(f, base)
    THEN [ObjectCount |-> 0, UsedBytes |-> 0, CapacityBytes |-> 0]
    ELSE [ObjectCount |-> Len(ListOf(f, base, "")),
          UsedBytes |-> UsedBytes(f, WalkFiles(f, base)),
          CapacityBytes |-> IF GetBucketMetadata(f, base).err = ""
                            THEN GetBucketMetadata(f, base).bm.CapacityBytes
                            ELSE 0]

\* One filesystem step of call p, made by caller c.
Step(f, p, c) ==
    CASE p.op \in {"Put", "PutWithMetadata"} -> PutWithMetadataStep(f, p, <<c, 1>>)
      [] p.op = "PutMetadata" -> PutMetadataStep(f, p, <<c, 1>>)
      [] p.op = "GetMetadata" -> GetMetadataStep(f, p, <<c, 1>>)
      [] p.op = "Get" -> GetStep(f, p, c)
      [] p.op = "Delete" -> DeleteStep(f, p)
      [] p.op = "StartMultipart" -> StartMultipartStep(f, p)
      [] p.op = "UploadPart" -> UploadPartStep(f, p, <<c, 1>>)
      [] p.op = "CompleteMultipart" -> CompleteMultipartStep(f, p, <<c, 1>>)
      [] p.op = "AbortMultipart" -> AbortMultipartStep(f, p)
      [] p.op = "Reconstruct" -> ReconstructStep(f, p, c)
      [] p.op = "PutBucketMetadata" -> PutBucketMetadataStep(f, p, <<c, 1>>)
      [] p.op = "List" -> Finish(f, [p EXCEPT !.list = ListOf(f, BucketDir(p), p.prefix)])
      [] p.op = "Stats" -> Finish(f, [p EXCEPT !.stats = StatsOf(f, BucketDir(p))])

\* The call run to its return without interference: RunOn goes on from the
\* outcome s of a step.
RECURSIVE Run(_, _, _)
RunOn(s, c) == Run(s.fs, s.p, c)

Run(f, p, c) ==
    IF p.pc = "done" THEN [fs |-> f, p |-> p]
    ELSE RunOn(Step(f, p, c), c)

(***************************************************************************)
(* The calls of the Storage interface, with their arguments.               *)
(***************************************************************************)
PutCall(b, k, body) ==
    Call("Put", b, k, "", 0, body, MetaOf("created_by" :> "LocalStorage"), <<>>,
         "mkbucket")
PutWithMetadataCall(b, k, body, meta) ==
    Call("PutWithMetadata", b, k, "", 0, body, meta, <<>>, "mkbucket")
PutMetadataCall(b, k, meta) ==
    Call("PutMetadata", b, k, "", 0, "", meta, <<>>, "mkbucket")
GetMetadataCall(b, k) == Call("GetMetadata", b, k, "", 0, "", NilMeta, <<>>, "open")
GetCall(b, k) == Call("Get", b, k, "", 0, "", NilMeta, <<>>, "readdir")
DeleteCall(b, k) == Call("Delete", b, k, "", 0, "", NilMeta, <<>>, "removeall")
StartMultipartCall(b, k, rnd) ==
    Call("StartMultipart", b, k, "", 0, "", NilMeta, rnd, "mkbucket")
UploadPartCall(b, k, u, n, body) ==
    Call("UploadPart", b, k, u, n, body, NilMeta, <<>>, "mkbucket")
CompleteMultipartCall(b, k, u, meta) ==
    Call("CompleteMultipart", b, k, u, 0, "", meta, <<>>, "mkbucket")
AbortMultipartCall(b, k, u) ==
    Call("AbortMultipart", b, k, u, 0, "", NilMeta, <<>>, "mkbucket")
ReconstructCall(b, k, outPath, includeKeys) ==
    [Call("Reconstruct", b, k, "", 0, "", NilMeta, <<>>, "open")
        EXCEPT !.outPath = JoinPath(<<>>, outPath), !.includeKeys = includeKeys]
PutBucketMetadataCall(b, bm) ==
    [Call("PutBucketMetadata", b, "", "", 0, "", NilMeta, <<>>, "mkbucket")
        EXCEPT !.bmeta = bm]
ListCall(b, prefix) ==
    [Call("List", b, "", "", 0, "", NilMeta, <<>>, "walk") EXCEPT !.prefix = prefix]
StatsCall(b) == Call("Stats", b, "", "", 0, "", NilMeta, <<>>, "walk")

\* What Get and GetMetadata return in filesystem state f.
GetOf(f, b, k) == Run(f, GetCall(b, k), 0).p
GetMetadataOf(f, b, k) == Run(f, GetMetadataCall(b, k), 0).p

(***************************************************************************)
(* The SigV4 validator (internal/server/auth.go).                          *)
(*                                                                         *)
(* SHA-256 and HMAC-SHA256 are collision-free: a digest is its tagged      *)
(* input (the key with its length, so that key and data cannot trade       *)
(* bytes), and is compared and printed in hex like the real one.           *)
(***************************************************************************)
sha256(data) == "sha256(" \o data \o ")"

sha256Hex(data) == HexEncode(sha256(data))

hmacSHA256(key, data) == "hmac(" \o Itoa(Len(key)) \o ":" \o key \o data \o ")"

IsLeap(y) == (y % 4 = 0 /\ y % 100 # 0) \/ y % 400 = 0

DaysInMonth(y, m) ==
    IF m = 2 THEN (IF IsLeap(y) THEN 29 ELSE 28)
    ELSE IF m \in {4, 6, 9, 11} THEN 30 ELSE 31

\* Days from 1970-01-01 to the civil date y-m-d (y >= 1970).
DaysFromCivil(y, m, d) ==
    LET yy == IF m <= 2 THEN y - 1 ELSE y
        era == yy \div 400
        yoe == yy - era * 400
        doy == (153 * (IF m > 2 THEN m - 3 ELSE m + 9) + 2) \div 5 + d - 1
        doe == yoe * 365 + yoe \div 4 - yoe \div 100 + doy
    IN  era * 146097 + doe - 719468

\* time.Parse("20060102T150405Z", s): the moment as its day since
\* 1970-01-01 and its second of the day, or an error.  (Go also takes a
\* fraction after the seconds; no input of the model has one.)
ParseAmzDate(s) ==
    IF \/ Len(s) # 16
       \/ Char(s, 9) # "T" \/ Char(s, 16) # "Z"
       \/ ~IsDigits(SubSeq(s, 1, 8)) \/ ~IsDigits(SubSeq(s, 10, 15))
    THEN [ok |-> FALSE, day |-> 0, sec |-> 0]
    ELSE LET y == Atoi(SubSeq(s, 1, 4))
             mo == Atoi(SubSeq(s, 5, 6))
             d == Atoi(SubSeq(s, 7, 8))
             h == Atoi(SubSeq(s, 10, 11))
             mi == Atoi(SubSeq(s, 12, 13))
             sec == Atoi(SubSeq(s, 14, 15))
         IN  IF \/ mo \notin 1..12
                \/ d \notin 1..DaysInMonth(y, mo)
                \/ h > 23 \/ mi > 59 \/ sec > 59
             THEN [ok |-> FALSE, day |-> 0, sec |-> 0]
             ELSE [ok |-> TRUE, day |-> DaysFromCivil(y, mo, d),
                   sec |-> h * 3600 + mi * 60 + sec]

\* A time.Duration is an int64 count of nanoseconds.  It is kept as days d,
\* seconds s of the day and nanoseconds ns of the second (its value is
\* d * 86400 * 10^9 + s * 10^9 + ns with 0 <= s < 86400, 0 <= ns < 10^9),
\* so that the whole range of int64 is there: maxDuration is 2^63 - 1 and
\* minDuration -2^63 nanoseconds.
Duration(d, s, ns) == [d |-> d, s |-> s, ns |-> ns]

maxDuration == Duration(106751, 85636, 854775807)
minDuration == Duration(-106752, 763, 145224192)

Seconds(n) == Duration(n \div 86400, n % 86400, 0)

\* d < e
Shorter(d, e) ==
    \/ d.d < e.d
    \/ d.d = e.d /\ d.s < e.s
    \/ d.d = e.d /\ d.s = e.s /\ d.ns < e.ns

\* now - t without a limit.
Elapsed(now, t) ==
    IF now.sec < t.sec THEN Duration(now.day - t.day - 1, now.sec - t.sec + 86400, 0)
    ELSE Duration(now.day - t.day, now.sec - t.sec, 0)

\* time.Since(t) at the moment now, which is now.Sub(t): the difference, or
\* minDuration or maxDuration when the difference is outside int64.
Since(now, t) ==
    IF Shorter(Elapsed(now, t), minDuration) THEN minDuration
    ELSE IF Shorter(maxDuration, Elapsed(now, t)) THEN maxDuration
    ELSE Elapsed(now, t)

\* -d in int64: -minDuration is outside int64 and wraps around to
\* minDuration.
Negated(d) ==
    IF d = minDuration THEN minDuration
    ELSE IF d.ns # 0 THEN Duration(-d.d - 1, 86399 - d.s, 1000000000 - d.ns)
    ELSE IF d.s # 0 THEN Duration(-d.d - 1, 86400 - d.s, 0)
    ELSE Duration(-d.d, 0, 0)

absDuration(d) == IF Shorter(d, Seconds(0)) THEN Negated(d) ELSE d

\* An http.Request: the method, URL.EscapedPath(), URL.RawQuery, Host, the
\* header map (canonical name -> its one value) and the body.
Request(method, path, rawQuery, host, header, body) ==
    [method |-> method, path |-> path, rawQuery |-> rawQuery, host |-> host,
     header |-> header, body |-> body]

\* r.Header.Get(name)
HeaderGet(r, name) == IF name \in DOMAIN r.header THEN r.header[name] ELSE ""

\* r.Header.Set(name, value)
HeaderSet(r, name, value) == [r EXCEPT !.header = Put1(@, name, value)]

\* RootCredentialProvider.SecretFor
SecretFor(c, accessKey) ==
    IF c.user = "" \/ c.pass = "" THEN [secret |-> "", ok |-> FALSE]
    ELSE IF accessKey = c.user THEN [secret |-> c.pass, ok |-> TRUE]
    ELSE [secret |-> "", ok |-> FALSE]

\* defaultAuthConfig with the overrides AuthMiddleware applies, for the root
\* credential pair user/pass of the environment.
AuthConfig(region, clockSkew, requireAuth, user, pass) ==
    [Region |-> IF region = "" THEN "us-east-1" ELSE region,
     Service |-> "holydb",
     ClockSkew |-> IF clockSkew # Seconds(0) THEN clockSkew ELSE Seconds(5 * 60),
     given |-> clockSkew,
     RequireAuth |-> requireAuth,
     user |-> user, pass |-> pass]

NoAuthHeader == [CredentialParts |-> <<>>, SignedHeaders |-> <<>>, Signature |-> ""]

\* The loop of parseAuthHeader over the comma-separated parts.
RECURSIVE ParseFields(_, _)
ParseFields(parts, ah) ==
    IF parts = <<>> THEN ah
    ELSE LET kv == SplitN2(TrimSpace(Head(parts)), "=")
             next == IF Len(kv) # 2 THEN ah
                     ELSE IF kv[1] = "Credential"
                     THEN [ah EXCEPT !.CredentialParts = Split(kv[2], "/")]
                     ELSE IF kv[1] = "SignedHeaders"
                     THEN [ah EXCEPT !.SignedHeaders = Split(kv[2], ";")]
                     ELSE IF kv[1] = "Signature"
                     THEN [ah EXCEPT !.Signature = kv[2]]
                     ELSE ah
         IN  ParseFields(Tail(parts), next)

parseAuthHeader(rest) ==
    LET ah == ParseFields(Split(rest, ","), NoAuthHeader)
    IN  [ah |-> ah,
         err |-> IF \/ Len(ah.CredentialParts) = 0
                    \/ Len(ah.SignedHeaders) = 0
                    \/ ah.Signature = ""
                 THEN "missing fields" ELSE ""]

\* ensurePayloadHash: the supplied header is taken as it is; without one the
\* body is read and hashed.
ensurePayloadHash(r) ==
    IF HeaderGet(r, "X-Amz-Content-Sha256") # ""
    THEN HeaderGet(r, "X-Amz-Content-Sha256")
    ELSE sha256Hex(r.body)

HexValue(c) == IndexByte(HexDigits, LowerChar(c)) - 1

\* Whether every "%" of s starts an escape of two hex digits.
ValidEscapes(s) ==
    \A i \in 1..Len(s) :
        Char(s, i) = "%" =>
            /\ i + 2 <= Len(s)
            /\ HexValue(Char(s, i + 1)) >= 0
            /\ HexValue(Char(s, i + 2)) >= 0

RECURSIVE Unescape(_)
Unescape(s) ==
    IF s = "" THEN ""
    ELSE IF Head(s) = "%"
    THEN Chr(16 * HexValue(Char(s, 2)) + HexValue(Char(s, 3)))
            \o Unescape(SubSeq(s, 4, Len(s)))
    ELSE Head(s) \o Unescape(Tail(s))

\* decodePercents: url.PathUnescape, or the input when that fails.
decodePercents(s) == IF ValidEscapes(s) THEN Unescape(s) ELSE s

Unreserved == UpperLetters \o LowerLetters \o Digits \o "-_.~"

awsURLEncode(s, encodeSlash) ==
    Concat([i \in 1..Len(s) |->
               LET c == Char(s, i)
               IN  IF IndexByte(Unreserved, c) # 0 THEN c
                   ELSE IF c = "/" /\ ~encodeSlash THEN "/"
                   ELSE "%" \o ToUpper(HexByte(Code[c]))])

canonicalURIEncodingOnly(path) ==
    IF path = "" THEN "/"
    ELSE LET segs == Split(path, "/")
         IN  JoinStrings([i \in 1..Len(segs) |->
                             awsURLEncode(segs[i], FALSE)], "/")

canonicalURI(path) ==
    IF path = "" THEN "/"
    ELSE LET segs == Split(path, "/")
         IN  JoinStrings([i \in 1..Len(segs) |->
                             awsURLEncode(decodePercents(segs[i]), FALSE)], "/")

\* url.QueryUnescape: "+" is a space, "%XX" a byte; an error for a bad escape.
QueryUnescape(s) ==
    [ok |-> ValidEscapes(s),
     s |-> IF ValidEscapes(s)
           THEN Unescape(Concat([i \in 1..Len(s) |->
                                    IF Char(s, i) = "+" THEN " " ELSE Char(s, i)]))
           ELSE ""]

\* The loop of url.ParseQuery over the "&"-separated parts: the key/value
\* pairs in their order; a part that is empty, holds ";" or a bad escape is
\* left out.
RECURSIVE ParsePairs(_)
ParsePairs(parts) ==
    IF parts = <<>> THEN <<>>
    ELSE LET p == Head(parts)
             kv == SplitN2(p, "=")
             k == QueryUnescape(kv[1])
             v == QueryUnescape(IF Len(kv) = 2 THEN kv[2] ELSE "")
         IN  IF p = "" \/ IndexByte(p, ";") # 0 \/ ~k.ok \/ ~v.ok
             THEN ParsePairs(Tail(parts))
             ELSE <<[k |-> k.s, v |-> v.s]>> \o ParsePairs(Tail(parts))

\* url.ParseQuery(raw)
ParseQuery(raw) == IF raw = "" THEN <<>> ELSE ParsePairs(Split(raw, "&"))

\* The values of key k among the pairs, in their order.
ValuesOf(pairs, k) ==
    LET Has(p) == p.k = k
        sel == SelectSeq(pairs, Has)
    IN  [i \in 1..Len(sel) |-> sel[i].v]

\* url.Values.Get
QueryGet(pairs, k) == IF ValuesOf(pairs, k) = <<>> THEN "" ELSE ValuesOf(pairs, k)[1]

\* The inner loop of canonicalQueryString: key k with each of its sorted
\* values vals.
QueryItem(k, vals) ==
    JoinStrings([j \in 1..Len(vals) |->
                    awsURLEncode(k, TRUE) \o "=" \o awsURLEncode(vals[j], TRUE)], "&")

\* The outer loop of canonicalQueryString over the sorted keys of the parsed
\* query v.
QueryItems(v, keys) ==
    JoinStrings([i \in 1..Len(keys) |->
                    QueryItem(keys[i], SortStringList(ValuesOf(v, keys[i])))], "&")

canonicalQueryString(raw) ==
    IF raw = "" THEN ""
    ELSE LET v == ParseQuery(raw)
         IN  QueryItems(v, SortStrings({v[i].k : i \in 1..Len(v)}))

\* canonicalHeaders: the signed names in lower case and sorted (the list is
\* sorted in place, so the caller joins the sorted names), each with its
\* value, the white space inside collapsed; host comes from r.Host.
canonicalHeaders(r, signed) ==
    LET names == SortStringList([i \in 1..Len(signed) |-> ToLower(signed[i])])
        missing(name) == CanonicalHeaderKey(name) \notin DOMAIN r.header
        bad == {i \in 1..Len(names) :
                   missing(names[i]) /\ (names[i] # "host" \/ r.host = "")}
        line(name) ==
            IF missing(name) THEN name \o ":" \o TrimSpace(r.host) \o "\n"
            ELSE name \o ":" \o
                 JoinStrings(Fields(r.header[CanonicalHeaderKey(name)]), " ") \o "\n"
    IN  IF bad # {}
        THEN LET i == CHOOSE j \in bad : \A k \in bad : j <= k
             IN  [names |-> names, text |-> "",
                  err |-> IF names[i] = "host" THEN "missing host header"
                          ELSE "missing signed header: " \o names[i]]
        ELSE [names |-> names,
              text |-> Concat([i \in 1..Len(names) |-> line(names[i])]),
              err |-> ""]

buildCanonicalRequest(r, signedHeaders, payloadHash) ==
    LET h == canonicalHeaders(r, signedHeaders)
    IN  [text |-> JoinStrings(<<r.method, canonicalURI(r.path),
                                canonicalQueryString(r.rawQuery), h.text,
                                JoinStrings(h.names, ";"), payloadHash>>, "\n"),
         err |-> h.err]

\* ExpectedSig with a key derivation of three steps: the service step is
\* left out.
ExpectedSigNoService(secret, ah, amzDate, canonicalReq) ==
    LET stringToSign == JoinStrings(<<"AWS4-HMAC-SHA256", amzDate,
                                      JoinStrings(Tail(ah.CredentialParts), "/"),
                                      sha256Hex(canonicalReq)>>, "\n")
        kDate == hmacSHA256("AWS4" \o secret, ah.CredentialParts[2])
        kRegion == hmacSHA256(kDate, ah.CredentialParts[3])
        kSigning == hmacSHA256(kRegion, "aws4_request")
    IN  HexEncode(hmacSHA256(kSigning, stringToSign))

\* ExpectedSig that hands back the supplied signature, so that the
\* comparison compares the signature with itself.
ExpectedSigSupplied(secret, ah, amzDate, canonicalReq) == ah.Signature

\* The signature the validator expects: the string to sign for amzDate, the
\* credential scope of the parsed Authorization ah and the canonical request,
\* signed with the key derived from secret in four steps.
ExpectedSig(secret, ah, amzDate, canonicalReq) ==
    LET datePart == ah.CredentialParts[2]
        region == ah.CredentialParts[3]
        service == ah.CredentialParts[4]
        hashCR == sha256Hex(canonicalReq)
        stringToSign == JoinStrings(<<"AWS4-HMAC-SHA256", amzDate,
                                      JoinStrings(Tail(ah.CredentialParts), "/"),
                                      hashCR>>, "\n")
        kDate == hmacSHA256("AWS4" \o secret, datePart)
        kRegion == hmacSHA256(kDate, region)
        kService == hmacSHA256(kRegion, service)
        kSigning == hmacSHA256(kService, "aws4_request")
    IN  HexEncode(hmacSHA256(kSigning, stringToSign))

\* Reject without the return after http.Error: the 401 is written and the
\* handler is called all the same.
RejectAndGoOn(msg) ==
    [wrote |-> TRUE, status |-> 401, msg |-> msg, next |-> 1,
     attached |-> FALSE, accessKey |-> "", resolved |-> 0, bodyRead |-> FALSE]

\* What the validator does with a request: the response it writes itself
\* (wrote, status, msg), how often it calls next.ServeHTTP, the access key
\* it attaches to the context of the request it passes on, how often it
\* calls the credential resolver (resolved) and whether it reads the body
\* (bodyRead).  Reject is http.Error(w, msg, 401) and the return after it.
Reject(msg) ==
    [wrote |-> TRUE, status |-> 401, msg |-> msg, next |-> 0,
     attached |-> FALSE, accessKey |-> "", resolved |-> 0, bodyRead |-> FALSE]

Pass(attached, accessKey) ==
    [wrote |-> FALSE, status |-> 0, msg |-> "", next |-> 1,
     attached |-> attached, accessKey |-> accessKey, resolved |-> 0,
     bodyRead |-> FALSE]

\* Outcome v of a handler that has called c.Credentials.SecretFor on its way.
Resolved(v) == [v EXCEPT !.resolved = @ + 1]

\* Outcome v of a handler that has called ensurePayloadHash(r) on its way:
\* the body is read when the request has no X-Amz-Content-Sha256 header.
PayloadHashed(r, v) ==
    IF HeaderGet(r, "X-Amz-Content-Sha256") = "" THEN [v EXCEPT !.bodyRead = TRUE]
    ELSE v

\* A body: the bytes behind it, how many of them have been read, and how
\* often io.ReadAll has been called on it.
Stream(data) == [data |-> data, pos |-> 0, reads |-> 0]

\* io.ReadAll(b): the bytes from the read position to the end, and the body
\* afterwards.
ReadAll(b) ==
    [data |-> SubSeq(b.data, b.pos + 1, Len(b.data)),
     body |-> [b EXCEPT !.pos = Len(b.data), !.reads = @ + 1]]

\* ensurePayloadHash reading the body and returning no restored body: the
\* request keeps the body that has been read to its end.
bufferPayloadUnrestored(r, read) ==
    IF ~read
    THEN [orig |-> Stream(r.body), hashed |-> "", body |-> Stream(r.body)]
    ELSE LET a == ReadAll(Stream(r.body))
         IN  [orig |-> a.body, hashed |-> a.data, body |-> a.body]

\* The body step of the validator on request r, read telling whether it
\* reaches ensurePayloadHash without a supplied hash: io.ReadAll of r.Body,
\* the bytes hashed, and r.Body = restoredBody, a reader over those bytes.
\* orig is the body the client sent, body the one the request has afterwards.
bufferPayload(r, read) ==
    IF ~read
    THEN [orig |-> Stream(r.body), hashed |-> "", body |-> Stream(r.body)]
    ELSE LET a == ReadAll(Stream(r.body))
         IN  [orig |-> a.body, hashed |-> a.data, body |-> Stream(a.data)]

\* The request the validator passes on: its body is what the handler reads
\* from r.Body.
Forwarded(r, read) == [r EXCEPT !.body = ReadAll(bufferPayload(r, read).body).data]

\* The handler from the signature derivation on: the canonical request
\* canonicalReq of the request, signed with the secret of the access key.
CheckSignature(secret, ah, amzDate, canonicalReq) ==
    IF canonicalReq.err # "" THEN Reject("canonical request error")
    ELSE IF ExpectedSig(secret, ah, amzDate, canonicalReq.text) # ah.Signature
    THEN Reject("signature mismatch")
    ELSE Pass(TRUE, ah.CredentialParts[1])

\* The handler from the date checks on: amzDate is the X-Amz-Date header, t
\* what time.Parse makes of it.
CheckDate(c, r, now, ah, secret, amzDate, t) ==
    IF amzDate = "" THEN Reject("missing X-Amz-Date")
    ELSE IF ~t.ok THEN Reject("bad X-Amz-Date")
    ELSE IF Shorter(c.ClockSkew, absDuration(Since(now, t)))
    THEN Reject("request expired")
    ELSE IF ~HasPrefix(amzDate, ah.CredentialParts[2]) THEN Reject("date scope mismatch")
    ELSE PayloadHashed(r, CheckSignature(secret, ah, amzDate,
                                         buildCanonicalRequest(r, ah.SignedHeaders,
                                                               ensurePayloadHash(r))))

\* CheckScope with the access key resolved before the region and service
\* are compared.
CheckScopeResolverFirst(c, r, now, ah, cred) ==
    IF Len(ah.CredentialParts) # 5 \/ ah.CredentialParts[5] # "aws4_request"
    THEN Reject("invalid credential scope")
    ELSE IF ~cred.ok THEN Resolved(Reject("unknown access key"))
    ELSE IF ah.CredentialParts[3] # c.Region \/ ah.CredentialParts[4] # c.Service
    THEN Resolved(Reject("invalid region/service"))
    ELSE Resolved(CheckDate(c, r, now, ah, cred.secret, HeaderGet(r, "X-Amz-Date"),
                            ParseAmzDate(HeaderGet(r, "X-Amz-Date"))))

\* The handler from the credential scope on, for the parsed Authorization
\* ah; cred is what SecretFor answers for its access key.
CheckScope(c, r, now, ah, cred) ==
    IF Len(ah.CredentialParts) # 5 \/ ah.CredentialParts[5] # "aws4_request"
    THEN Reject("invalid credential scope")
    ELSE IF ah.CredentialParts[3] # c.Region \/ ah.CredentialParts[4] # c.Service
    THEN Reject("invalid region/service")
    ELSE IF ~cred.ok THEN Resolved(Reject("unknown access key"))
    ELSE Resolved(CheckDate(c, r, now, ah, cred.secret, HeaderGet(r, "X-Amz-Date"),
                            ParseAmzDate(HeaderGet(r, "X-Amz-Date"))))

\* The handler once parseAuthHeader has answered parsed.
CheckParsed(c, r, now, parsed) ==
    IF parsed.err # "" THEN Reject("malformed Authorization")
    ELSE CheckScope(c, r, now, parsed.ah, SecretFor(c, parsed.ah.CredentialParts[1]))

\* The handler AuthMiddleware(cfg)(next) on request r at time now.
AuthMiddleware(c, r, now) ==
    LET authz == HeaderGet(r, "Authorization")
        scheme == "AWS4-HMAC-SHA256 "
    IN  IF authz = ""
        THEN (IF c.RequireAuth THEN Reject("missing Authorization header")
              ELSE Pass(FALSE, ""))
        ELSE IF ~HasPrefix(authz, scheme) THEN Reject("invalid auth scheme")
        ELSE CheckParsed(c, r, now,
                         parseAuthHeader(SubSeq(authz, Len(scheme) + 1, Len(authz))))

\* buildSigV4 of the server's test: the client signing request r for the moment
\* that formats as amzDate, hashing body.
buildSigV4(r, accessKey, secret, body, amzDate) ==
    LET region == "us-east-1"
        service == "holydb"
        datePart == SubSeq(amzDate, 1, 8)
        payloadHash == sha256Hex(body)
        signedHdrs == JoinStrings(<<"host", "x-amz-content-sha256", "x-amz-date">>, ";")
        canonicalHdrs == "host:" \o r.host \o "\n" \o
                         "x-amz-content-sha256:" \o payloadHash \o "\n" \o
                         "x-amz-date:" \o amzDate \o "\n"
        canonicalReq == JoinStrings(<<r.method, r.path, "", canonicalHdrs,
                                      signedHdrs, payloadHash>>, "\n")
        scope == JoinStrings(<<datePart, region, service, "aws4_request">>, "/")
        stringToSign == JoinStrings(<<"AWS4-HMAC-SHA256", amzDate, scope,
                                      sha256Hex(canonicalReq)>>, "\n")
        kDate == hmacSHA256("AWS4" \o secret, datePart)
        kRegion == hmacSHA256(kDate, region)
        kService == hmacSHA256(kRegion, service)
        kSigning == hmacSHA256(kService, "aws4_request")
        sig == HexEncode(hmacSHA256(kSigning, stringToSign))
        authHeader == JoinStrings(<<"AWS4-HMAC-SHA256 Credential=" \o accessKey
                                       \o "/" \o scope,
                                    "SignedHeaders=" \o signedHdrs,
                                    "Signature=" \o sig>>, ",")
    IN  HeaderSet(HeaderSet(HeaderSet(r, "X-Amz-Content-Sha256", payloadHash),
                            "X-Amz-Date", amzDate),
                  "Authorization", authHeader)

\* A client signing as buildSigV4 does, but naming the credential date
\* datePart in its scope (and deriving its key from it) whatever the date of
\* amzDate is.
SignForDate(r, accessKey, secret, body, amzDate, datePart) ==
    LET payloadHash == sha256Hex(body)
        signedHdrs == JoinStrings(<<"host", "x-amz-content-sha256", "x-amz-date">>, ";")
        canonicalHdrs == "host:" \o r.host \o "\n" \o
                         "x-amz-content-sha256:" \o payloadHash \o "\n" \o
                         "x-amz-date:" \o amzDate \o "\n"
        canonicalReq == JoinStrings(<<r.method, r.path, "", canonicalHdrs,
                                      signedHdrs, payloadHash>>, "\n")
        scope == JoinStrings(<<datePart, "us-east-1", "holydb", "aws4_request">>, "/")
        stringToSign == JoinStrings(<<"AWS4-HMAC-SHA256", amzDate, scope,
                                      sha256Hex(canonicalReq)>>, "\n")
        kDate == hmacSHA256("AWS4" \o secret, datePart)
        kRegion == hmacSHA256(kDate, "us-east-1")
        kService == hmacSHA256(kRegion, "holydb")
        kSigning == hmacSHA256(kService, "aws4_request")
        sig == HexEncode(hmacSHA256(kSigning, stringToSign))
        authHeader == JoinStrings(<<"AWS4-HMAC-SHA256 Credential=" \o accessKey
                                       \o "/" \o scope,
                                    "SignedHeaders=" \o signedHdrs,
                                    "Signature=" \o sig>>, ",")
    IN  HeaderSet(HeaderSet(HeaderSet(r, "X-Amz-Content-Sha256", payloadHash),
                            "X-Amz-Date", amzDate),
                  "Authorization", authHeader)

\* The object handler of RegisterObjectHandlers on the route
\* /v1/storage/{bucket}/{rest:.*}: the storage call it makes on filesystem
\* f and the status it answers.
\* The storage call of the handler for bucket and key, with the query
\* parameters uploadId and partNumber and the X-Meta-JSON header as parsed (m).
HandlerCall(r, bucket, key, uploadID, partNum, m) ==
    IF r.method = "PUT"
    THEN (IF uploadID # "" /\ partNum # ""
          THEN UploadPartCall(bucket, key, uploadID,
                              IF IsDigits(partNum) THEN Atoi(partNum) ELSE 0, r.body)
          ELSE PutWithMetadataCall(bucket, key, r.body,
                                   IF HeaderGet(r, "X-Meta-JSON") # "" /\ m.err = ""
                                   THEN m.meta ELSE NilMeta))
    ELSE IF r.method = "GET" THEN GetCall(bucket, key)
    ELSE DeleteCall(bucket, key)

\* What the handler answers once its storage call has returned as done.
HandlerAnswer(r, done) ==
    [fs |-> done.fs, call |-> done.p,
     status |-> IF done.p.err # ""
                THEN (IF r.method = "GET" THEN 404 ELSE 500)
                ELSE IF r.method = "GET" THEN 200
                ELSE IF r.method = "DELETE" THEN 204
                ELSE IF done.p.op = "UploadPart" THEN 200
                ELSE 201]

\* The handler with the path components comps and the parsed query q.
HandleObject(f, r, comps, q) ==
    HandlerAnswer(r, Run(f, HandlerCall(r, comps[4],
                                        JoinStrings(SubSeq(comps, 5, Len(comps)), "/"),
                                        QueryGet(q, "uploadId"),
                                        QueryGet(q, "partNumber"),
                                        UnmarshalMeta(HeaderGet(r, "X-Meta-JSON"))), 0))

ObjectHandler(f, r) ==
    IF r.method \notin {"PUT", "GET", "DELETE"}
    THEN [fs |-> f, call |-> Idle, status |-> 405]
    ELSE HandleObject(f, r, Split(r.path, "/"), ParseQuery(r.rawQuery))

\* What a handler answers with status code when the storage call it made
\* has returned as done.
Answer(done, bad, good) ==
    [fs |-> done.fs, call |-> done.p,
     status |-> IF done.p.err # "" THEN bad ELSE good]

\* A handler that answers status without a storage call.
AnswerOnly(f, status) == [fs |-> f, call |-> Idle, status |-> status]

\* The X-Meta-JSON header as the handlers take it: json.Unmarshal into a nil
\* Metadata, its error dropped.
MetaHeader(r) ==
    IF HeaderGet(r, "X-Meta-JSON") # ""
          /\ UnmarshalMeta(HeaderGet(r, "X-Meta-JSON")).err = ""
    THEN UnmarshalMeta(HeaderGet(r, "X-Meta-JSON")).meta
    ELSE NilMeta

\* The handler of RegisterBucketMetaHandlers, /{bucket}/.bucket.meta.
BucketMetaHandler(f, r, bucket) ==
    IF r.method = "PUT"
    THEN (IF UnmarshalBucketMetadata(r.body).err # ""
          THEN AnswerOnly(f, 400)
          ELSE Answer(Run(f, PutBucketMetadataCall(bucket,
                                  UnmarshalBucketMetadata(r.body).bm), 0), 500, 200))
    ELSE IF r.method = "GET"
    THEN AnswerOnly(f, IF GetBucketMetadata(f, JoinPath(Root, bucket)).err # ""
                       THEN 404 ELSE 200)
    ELSE AnswerOnly(f, 405)

\* The handler of RegisterReconstructHandlers, /{bucket}/_reconstruct/{rest}.
ReconstructHandler(f, bucket, key, out, include) ==
    IF out = "" THEN AnswerOnly(f, 400)
    ELSE Answer(Run(f, ReconstructCall(bucket, key, out,
                           IF include # "" THEN Split(include, ",") ELSE <<>>), 0),
                500, 200)

\* The handler of RegisterMultipartHandlers, /{bucket}/{rest}; a request
\* that is no multipart control gets the status of a handler that wrote
\* nothing.
MultipartHandler(f, r, bucket, key, complete, abort) ==
    IF complete # "" /\ r.method = "POST"
    THEN Answer(Run(f, CompleteMultipartCall(bucket, key, complete, MetaHeader(r)), 0),
                500, 200)
    ELSE IF abort # "" /\ r.method = "DELETE"
    THEN Answer(Run(f, AbortMultipartCall(bucket, key, abort), 0), 500, 204)
    ELSE AnswerOnly(f, 200)

\* The router of New for the path comps = /v1/storage/{bucket}/..., query q:
\* the first route, in the order of their registration, whose path and
\* methods match handles the request.  (The one-component route of
\* RegisterBucketHandlers does not match such a path.)
RouteTo(f, r, comps, rest, q) ==
    IF r.method \in {"PUT", "GET", "DELETE"}
    THEN ObjectHandler(f, r)
    ELSE IF rest = <<".bucket.meta">> /\ r.method \in {"PUT", "GET"}
    THEN BucketMetaHandler(f, r, comps[4])
    ELSE IF Len(rest) >= 2 /\ rest[1] = "_reconstruct" /\ r.method = "POST"
    THEN ReconstructHandler(f, comps[4], JoinStrings(Tail(rest), "/"),
                            QueryGet(q, "out"), QueryGet(q, "include"))
    ELSE IF r.method \in {"POST", "DELETE"}
    THEN MultipartHandler(f, r, comps[4], JoinStrings(rest, "/"),
                          QueryGet(q, "complete"), QueryGet(q, "abort"))
    ELSE AnswerOnly(f, 405)

Router(f, r) ==
    RouteTo(f, r, Split(r.path, "/"),
            SubSeq(Split(r.path, "/"), 5, Len(Split(r.path, "/"))),
            ParseQuery(r.rawQuery))

(***************************************************************************)
(* The inputs of the model.                                                *)
(***************************************************************************)
Buckets == {"b"}
Keys == {"a"}
Bodies == {"", "A", "B"}
PartNumbers == {1, 2, 10}
PartBodies == {"A", "B"}
Metas == {NilMeta, MetaOf("filename" :> "f" @@ "tag" :> "x")}
RandomDraws == {<<"1", "2">>, <<"2", "1">>}
UploadIDs == {"upload-1", "upload-2"}
Callers == {1, 2}
OutPaths == {"/out/obj.bin"}
IncludeKeys == {<<"tag", "owner">>}

\* The part files of object directory d, as ReadDir and the filter see them.
PartsIn(f, d) ==
    IF d \in f.dirs THEN PartNames(f, d, ReadDir(f, d).names) ELSE <<>>

\* What a reader of the metadata record of object directory d finds.
MetaState(f, d) ==
    IF Append(d, "data.meta") \in DOMAIN f.files
    THEN [present |-> TRUE, data |-> f.files[Append(d, "data.meta")]]
    ELSE [present |-> FALSE, data |-> ""]

\* History of an interleaved run:
\*   seen       per caller, every MetaState its key has shown since its call
\*              began
\*   committed  per object directory, the parts that were in place when its
\*              present metadata record was renamed into place
\*   overlap    whether two calls that write metadata were ever in progress
\*              at the same time
\*   concurrent whether any two calls were ever in progress at the same time
\*   metaBegun  per caller, whether its call has taken a step of writeMeta
\*   metaChanged per caller, whether a step of its call has created, changed
\*              or removed data.meta or data.meta.tmp of its object directory
\*   solo       per caller, the filesystem and the call record as its calls
\*              alone leave them: its steps made on a filesystem no other
\*              caller touches
\* of a run of whole calls:
\*   ended      the sessions (bucket, upload ID) that StartMultipart returned
\*              and a successful CompleteMultipart or AbortMultipart ended,
\*              until StartMultipart returns the upload ID again
\* and what is remembered of the request in flight:
\*   orig       the request as its client sent it
\*   change     what was changed on its way
\*   admitted   whether the validator admits the request as sent
NoHist ==
    [seen |-> [c \in Callers |-> {}], committed |-> <<>>, overlap |-> FALSE,
     concurrent |-> FALSE, ended |-> {},
     metaBegun |-> [c \in Callers |-> FALSE],
     metaChanged |-> [c \in Callers |-> FALSE],
     solo |-> [c \in Callers |-> [fs |-> EmptyFS, p |-> Idle]]]

WritesMeta(p) ==
    p.op \in {"Put", "PutWithMetadata", "PutMetadata", "CompleteMultipart"}

\* Whether the next step of call p is one of writeMeta.
InWriteMeta(p) ==
    WritesMeta(p) /\ p.pc \in {"meta_open", "meta_write", "meta_rename"}

\* Whether the file at path q is not the same in f and in g.
FileDiffers(f, g, q) ==
    IF q \in DOMAIN f.files
    THEN q \notin DOMAIN g.files \/ g.files[q] # f.files[q]
    ELSE q \in DOMAIN g.files

\* Whether data.meta or data.meta.tmp of directory d differs between f and g.
MetaWritten(f, g, d) ==
    \/ FileDiffers(f, g, Append(d, "data.meta"))
    \/ FileDiffers(f, g, Append(d, "data.meta.tmp"))

NoReq == Request("", "", "", "", <<>>, "")

NoSent ==
    [orig |-> NoReq, change |-> "none", accessKey |-> "", secret |-> "",
     amzDate |-> "", admitted |-> FALSE]

NoResp ==
    [served |-> FALSE, wrote |-> FALSE, status |-> 0, msg |-> "", next |-> 0,
     attached |-> FALSE, accessKey |-> "", resolved |-> 0, bodyRead |-> FALSE,
     body |-> "", call |-> Idle, reads |-> 0, hashed |-> ""]

\* time.Now() of the server: 2024-01-01 00:02:00 UTC.
Now == ParseAmzDate("20240101T000200Z")

InitStore ==
    /\ fs = EmptyFS
    /\ procs = [c \in Callers |-> Idle]
    /\ last = [p |-> Idle, hadParts |-> FALSE, hadMeta |-> FALSE, staged |-> <<>>]
    /\ nops = 0
    /\ hist = NoHist
    /\ sessions = {}

Init ==
    /\ InitStore
    /\ req = NoReq
    /\ sent = NoSent
    /\ resp = NoResp
    /\ cfg = AuthConfig("", Seconds(0), TRUE, "test", "secret123")
    /\ clock = Now

(***************************************************************************)
(* Spec: the storage calls made one after the other, each run to its       *)
(* return.                                                                 *)
(***************************************************************************)
\* The content of the part files of directory d, by part number.
PartsByNumber(f, d) ==
    [n \in {m \in PartNumbers : Append(d, "part." \o Itoa(m)) \in DOMAIN f.files}
        |-> f.files[Append(d, "part." \o Itoa(n))]]

\* The sessions after call p has returned.
SessionsAfter(S, p) ==
    IF p.err # "" THEN S
    ELSE IF p.op = "StartMultipart" THEN S \cup {<<p.bucket, p.id>>}
    ELSE IF p.op \in {"CompleteMultipart", "AbortMultipart"}
    THEN S \ {<<p.bucket, p.uploadID>>}
    ELSE S

\* The ended sessions after call p has returned, S being the live sessions
\* before it.
EndedAfter(E, S, p) ==
    IF p.err # "" THEN E
    ELSE IF p.op = "StartMultipart" THEN E \ {<<p.bucket, p.id>>}
    ELSE IF /\ p.op \in {"CompleteMultipart", "AbortMultipart"}
            /\ <<p.bucket, p.uploadID>> \in S
    THEN E \cup {<<p.bucket, p.uploadID>>}
    ELSE E

\* The state after a call has run to its return r, starting from the current
\* state.  last keeps the call with its results, what the key held before,
\* and the parts its session had staged.
Done(r) ==
    /\ fs' = r.fs
    /\ last' = [p |-> r.p,
                hadParts |-> PartsIn(fs, ObjDir(r.p)) # <<>>,
                hadMeta |-> Append(ObjDir(r.p), "data.meta") \in DOMAIN fs.files,
                staged |-> IF <<r.p.bucket, r.p.uploadID>> \in sessions
                           THEN PartsByNumber(fs, PartDir(r.p)) ELSE <<>>]
    /\ nops' = nops + 1
    /\ sessions' = SessionsAfter(sessions, r.p)
    /\ hist' = [hist EXCEPT !.ended = EndedAfter(@, sessions, r.p)]
    /\ UNCHANGED <<procs, authVars>>

Put ==
    \E b \in Buckets, k \in Keys, body \in Bodies :
          LET r == Run(fs, PutCall(b, k, body), 0)
          IN  /\ nops < MaxOps
              /\ Done(r)

PutWithMetadata ==
    \E b \in Buckets, k \in Keys, body \in Bodies, m \in Metas :
          LET r == Run(fs, PutWithMetadataCall(b, k, body, m), 0)
          IN  /\ nops < MaxOps
              /\ Done(r)

PutMetadata ==
    \E b \in Buckets, k \in Keys, m \in Metas :
          LET r == Run(fs, PutMetadataCall(b, k, m), 0)
          IN  /\ nops < MaxOps
              /\ Done(r)

GetMetadata ==
    \E b \in Buckets, k \in Keys :
          LET r == Run(fs, GetMetadataCall(b, k), 0)
          IN  /\ nops < MaxOps
              /\ Done(r)

Get ==
    \E b \in Buckets, k \in Keys :
          LET r == Run(fs, GetCall(b, k), 0)
          IN  /\ nops < MaxOps
              /\ Done(r)

Delete ==
    \E b \in Buckets, k \in Keys :
          LET r == Run(fs, DeleteCall(b, k), 0)
          IN  /\ nops < MaxOps
              /\ Done(r)

StartMultipart ==
    \E b \in Buckets, k \in Keys, rnd \in RandomDraws :
          LET r == Run(fs, StartMultipartCall(b, k, rnd), 0)
          IN  /\ nops < MaxOps
              /\ Done(r)

UploadPart ==
    \E b \in Buckets, k \in Keys, u \in UploadIDs, n \in PartNumbers,
           body \in PartBodies :
          LET r == Run(fs, UploadPartCall(b, k, u, n, body), 0)
          IN  /\ nops < MaxOps
              /\ Done(r)

CompleteMultipart ==
    \E b \in Buckets, k \in Keys, u \in UploadIDs, m \in Metas :
          LET r == Run(fs, CompleteMultipartCall(b, k, u, m), 0)
          IN  /\ nops < MaxOps
              /\ Done(r)

AbortMultipart ==
    \E b \in Buckets, k \in Keys, u \in UploadIDs :
          LET r == Run(fs, AbortMultipartCall(b, k, u), 0)
          IN  /\ nops < MaxOps
              /\ Done(r)

Reconstruct ==
    \E b \in Buckets, k \in Keys, o \in OutPaths, inc \in IncludeKeys :
          LET r == Run(fs, ReconstructCall(b, k, o, inc), 0)
          IN  /\ nops < MaxOps
              /\ Done(r)

Next ==
    \/ Put
    \/ PutWithMetadata
    \/ PutMetadata
    \/ GetMetadata
    \/ Get
    \/ Delete
    \/ StartMultipart
    \/ UploadPart
    \/ CompleteMultipart
    \/ AbortMultipart
    \/ Reconstruct

Spec == Init /\ [][Next]_vars

(***************************************************************************)
(* SpecSteps: the callers' storage calls interleaved at their filesystem   *)
(* steps, and the process crashing between any two steps.                  *)
(***************************************************************************)
StepCalls ==
    {PutCall("b", "a", "A"), PutCall("b", "a", "B"),
     PutMetadataCall("b", "a", MetaOf("tag" :> "x")),
     GetMetadataCall("b", "a"), GetCall("b", "a"), DeleteCall("b", "a"),
     UploadPartCall("b", "a", "upload-1", 2, "B"),
     CompleteMultipartCall("b", "a", "upload-1", NilMeta)}

\* The history after caller c's step from call record p to q, which left the
\* filesystem g.
HistAfter(g, c, p, q) ==
    [hist EXCEPT
       !.seen = [d \in Callers |->
                   IF d = c
                   THEN IF q.pc = "done" THEN @[d]
                        ELSE @[d] \cup {MetaState(g, ObjDir(q))}
                   ELSE IF procs[d].pc = "done" THEN @[d]
                        ELSE @[d] \cup {MetaState(g, ObjDir(procs[d]))}],
       !.metaBegun[c] = @ \/ InWriteMeta(p),
       !.metaChanged[c] = @ \/ (WritesMeta(p) /\ MetaWritten(fs, g, ObjDir(p))),
       !.committed =
           LET renamed == p.pc = "meta_rename" /\ q.err = ""
               D == {d \in DOMAIN @ \cup (IF renamed THEN {ObjDir(p)} ELSE {}) :
                        MetaState(g, d).present}
           IN  [d \in D |-> IF renamed /\ d = ObjDir(p)
                             THEN PartsByNumber(g, d) ELSE @[d]]]

\* Caller c begins a call.
Begin ==
    \E c \in Callers, p \in StepCalls :
        /\ nops < MaxCalls
        /\ procs[c].pc = "done"
        /\ procs' = [procs EXCEPT ![c] = p]
        /\ nops' = nops + 1
        /\ hist' = [hist EXCEPT
                       !.seen[c] = {MetaState(fs, ObjDir(p))},
                       !.metaBegun[c] = FALSE,
                       !.metaChanged[c] = FALSE,
                       !.overlap = @ \/ (WritesMeta(p) /\ \E d \in Callers \ {c} :
                                           procs[d].pc # "done" /\ WritesMeta(procs[d])),
                       !.concurrent = @ \/ \E d \in Callers \ {c} :
                                              procs[d].pc # "done"]
        /\ UNCHANGED <<fs, last, sessions, authVars>>

\* Caller c makes the next filesystem step of its call.
StepAct ==
    \E c \in Callers :
        LET s == Step(fs, procs[c], c)
        IN  /\ procs[c].pc # "done"
            /\ fs' = s.fs
            /\ procs' = [procs EXCEPT ![c] = s.p]
            /\ hist' = HistAfter(s.fs, c, procs[c], s.p)
            /\ sessions' = IF s.p.pc = "done" THEN SessionsAfter(sessions, s.p)
                           ELSE sessions
            /\ UNCHANGED <<last, nops, authVars>>

\* The process dies: its calls are gone and its handles closed; the
\* filesystem stays as it is.
Crash ==
    /\ \E c \in Callers : procs[c].pc # "done"
    /\ procs' = [c \in Callers |-> Idle]
    /\ fs' = CloseAll(fs, DOMAIN fs.open)
    /\ hist' = [hist EXCEPT !.seen = [c \in Callers |-> {}],
                            !.metaBegun = [c \in Callers |-> FALSE],
                            !.metaChanged = [c \in Callers |-> FALSE]]
    /\ UNCHANGED <<last, nops, sessions, authVars>>

NextSteps ==
    \/ Begin
    \/ StepAct
    \/ Crash

SpecSteps == Init /\ [][NextSteps]_vars

(***************************************************************************)
(* PairSpec: two callers, each with a key of its own in the same bucket,   *)
(* their calls interleaved at their filesystem steps.                      *)
(***************************************************************************)
\* The key of each caller; neither is a path prefix of the other.
PairKeys == <<"a", "c">>

PairCalls(k) ==
    {PutCall("b", k, "A"), PutWithMetadataCall("b", k, "B", MetaOf("tag" :> "x")),
     PutMetadataCall("b", k, MetaOf("tag" :> "y")),
     GetMetadataCall("b", k), GetCall("b", k), DeleteCall("b", k)}

\* Caller c begins a call on its key.
BeginPair ==
    \E c \in Callers :
        \E p \in PairCalls(PairKeys[c]) :
            /\ nops < MaxCalls
            /\ procs[c].pc = "done"
            /\ procs' = [procs EXCEPT ![c] = p]
            /\ nops' = nops + 1
            /\ hist' = [hist EXCEPT
                           !.solo[c].p = p,
                           !.concurrent = @ \/ \E d \in Callers \ {c} :
                                                  procs[d].pc # "done"]
            /\ UNCHANGED <<fs, last, sessions, authVars>>

\* The state after caller c's step with outcome s, its step alone having
\* the outcome t.
PairStepped(c, s, t) ==
    /\ fs' = s.fs
    /\ procs' = [procs EXCEPT ![c] = s.p]
    /\ hist' = [hist EXCEPT !.solo[c] = t]
    /\ UNCHANGED <<last, nops, sessions, authVars>>

\* Caller c makes the next filesystem step of its call.
StepPair ==
    \E c \in Callers :
        /\ procs[c].pc # "done"
        /\ PairStepped(c, Step(fs, procs[c], c),
                       Step(hist.solo[c].fs, hist.solo[c].p, c))

NextPair ==
    \/ BeginPair
    \/ StepPair

PairSpec == Init /\ [][NextPair]_vars

(***************************************************************************)
(* StartSpec: StartMultipart calls interleaved at their filesystem steps   *)
(* with each other, with an UploadPart that makes a staging area of its    *)
(* own and with an AbortMultipart.                                         *)
(***************************************************************************)
StartCalls ==
    {StartMultipartCall("b", "a", rnd) : rnd \in RandomDraws}
        \cup {UploadPartCall("b", "a", "upload-1", 1, "A"),
              AbortMultipartCall("b", "a", "upload-1")}

\* Caller c begins one of the calls of StartCalls.
BeginStart ==
    \E c \in Callers, p \in StartCalls :
        /\ nops < MaxCalls
        /\ procs[c].pc = "done"
        /\ procs' = [procs EXCEPT ![c] = p]
        /\ nops' = nops + 1
        /\ hist' = [hist EXCEPT
                       !.concurrent = @ \/ \E d \in Callers \ {c} :
                                              procs[d].pc # "done"]
        /\ UNCHANGED <<fs, last, sessions, authVars>>

NextStart ==
    \/ BeginStart
    \/ StepAct

StartSpec == Init /\ [][NextStart]_vars

(***************************************************************************)
(* AuthSpec: clients build requests, sign them, a request is changed on    *)
(* its way, and the validator in front of the object handler serves it.    *)
(***************************************************************************)
Requests ==
    {Request("PUT", "/v1/storage/b/a", "", "localhost", <<>>, "A"),
     Request("GET", "/v1/storage/b/a", "", "localhost", <<>>, "")}

\* The access key / secret pairs clients sign with; the root pair is the
\* first.
Signers == {<<"test", "secret123">>, <<"test", "wrong">>, <<"eve", "secret123">>}

\* The moments clients sign for: the server's time, 60 s, 300 s and 301 s
\* after it, 240 s before it (the day before), and the moments 2^63
\* nanoseconds away: 9223372036 s and 9223372037 s after it, 9223372037 s
\* before it.
AmzDates ==
    {"20240101T000200Z", "20240101T000300Z", "20240101T000700Z", "20240101T000701Z",
     "20231231T235800Z", "23160411T234916Z", "23160411T234917Z", "17310922T001443Z"}

\* What X-Amz-Date is changed to.
ChangedDates ==
    {"", "2024-01-01", "20240101T000201Z", "20240101T001000Z", "20231231T235900Z"}

\* What the Authorization header is replaced by.
ForgedAuthorizations ==
    {"Basic dGVzdA==",
     "AWS4-HMAC-SHA256 Credential=test/20240101/us-east-1/holydb/aws4_request",
     "AWS4-HMAC-SHA256 Credential=test/20240101/us-east-1/holydb, SignedHeaders=host, Signature=00"}

\* The bytes put in the place of a signature byte, and appended to it.
ChangedBytes == {"0", "f", ",", " "}
AppendedBytes == {"00", " ", ",00", ", x=1", ",Signature="}

\* The credential dates a client names instead of the date of its
\* timestamp: the year only, none, the next day.
CredentialDates == {"2024", "", "20240102"}

Configs ==
    {AuthConfig("", Seconds(0), TRUE, "test", "secret123"),
     AuthConfig("", Seconds(0), FALSE, "test", "secret123"),
     AuthConfig("eu-west-1", Seconds(0), TRUE, "test", "secret123"),
     AuthConfig("", Seconds(60), TRUE, "test", "secret123")}

InitAuth ==
    /\ InitStore
    /\ req = NoReq
    /\ sent = NoSent
    /\ resp = NoResp
    /\ cfg \in Configs
    /\ clock = Now

\* A client signs a request with buildSigV4 and sends it.
\* Request s goes out; sent keeps how it was made and whether the validator
\* admits it as it is.
Send(s, accessKey, secret, amzDate) ==
    /\ req = NoReq \/ resp.served
    /\ req' = s
    /\ sent' = [orig |-> s, change |-> "none", accessKey |-> accessKey,
                secret |-> secret, amzDate |-> amzDate,
                admitted |-> AuthMiddleware(cfg, s, clock).next = 1]
    /\ resp' = NoResp
    /\ nops' = nops + 1
    /\ UNCHANGED <<fs, procs, last, hist, sessions, cfg, clock>>

SignRequest ==
    \E r \in Requests, k \in Signers, d \in AmzDates :
        /\ nops < MaxRequests
        /\ Send(buildSigV4(r, k[1], k[2], r.body, d), k[1], k[2], d)

\* A client sends a request without credentials.
SendUnsigned ==
    \E r \in Requests :
        /\ nops < MaxRequests
        /\ Send(r, "", "", "")

\* The signed request is still as its client sent it and not yet served.
Untouched ==
    /\ "Authorization" \in DOMAIN req.header
    /\ sent.change = "none"
    /\ ~resp.served

Changed(r, change) ==
    /\ req' = r
    /\ sent' = [sent EXCEPT !.change = change]
    /\ UNCHANGED <<fs, procs, last, nops, hist, sessions, resp, cfg, clock>>

\* Where the signature starts in an Authorization header that buildSigV4
\* made: behind its last "=".
SignatureStart(authz) ==
    1 + CHOOSE i \in 1..Len(authz) :
            Char(authz, i) = "=" /\ \A j \in (i + 1)..Len(authz) : Char(authz, j) # "="

\* One byte of the signature (its first, its second or its last) becomes
\* another byte.
ChangeSignatureByte ==
    \E c \in ChangedBytes, at \in {"first", "second", "last"} :
        LET authz == req.header["Authorization"]
            i == IF at = "last" THEN Len(authz)
                 ELSE IF at = "first" THEN SignatureStart(authz)
                 ELSE SignatureStart(authz) + 1
            new == SubSeq(authz, 1, i - 1) \o c \o SubSeq(authz, i + 1, Len(authz))
        IN  /\ Untouched
            /\ Char(authz, i) # c
            /\ Changed(HeaderSet(req, "Authorization", new), "signature byte")

\* Bytes are appended to the signature.
AppendToSignature ==
    \E tail \in AppendedBytes :
        /\ Untouched
        /\ Changed(HeaderSet(req, "Authorization",
                             req.header["Authorization"] \o tail), "signature tail")

ChangeMethod ==
    \E m \in {"PUT", "GET", "DELETE", "POST"} :
        /\ Untouched
        /\ m # req.method
        /\ Changed([req EXCEPT !.method = m], "method")

ChangeDate ==
    \E d \in ChangedDates :
        /\ Untouched
        /\ d # HeaderGet(req, "X-Amz-Date")
        /\ Changed(IF d = "" THEN [req EXCEPT !.header = Drop(@, {"X-Amz-Date"})]
                   ELSE HeaderSet(req, "X-Amz-Date", d), "date")

ChangeBody ==
    \E b \in {"A", "B"} :
        /\ Untouched
        /\ b # req.body
        /\ Changed([req EXCEPT !.body = b], "body")

DropPayloadHash ==
    /\ Untouched
    /\ "X-Amz-Content-Sha256" \in DOMAIN req.header
    /\ Changed([req EXCEPT !.header = Drop(@, {"X-Amz-Content-Sha256"})], "payload hash")

ForgeAuthorization ==
    \E a \in ForgedAuthorizations :
        /\ Untouched
        /\ Changed(HeaderSet(req, "Authorization", a), "authorization")

\* The validator handles the request and, when it passes it on, the object
\* handler makes its storage call.
\* The client signs its request again, consistently, for a credential date
\* that is not the date of its timestamp.
ChangeCredentialDate ==
    \E dp \in CredentialDates :
        /\ Untouched
        /\ dp # SubSeq(sent.amzDate, 1, 8)
        /\ Changed(SignForDate(req, sent.accessKey, sent.secret, req.body,
                               sent.amzDate, dp), "credential date")

\* The state after the validator has answered v and the object handler,
\* when it is called, h.
Served(v, h) ==
    /\ resp' = [served |-> TRUE, wrote |-> v.wrote,
                status |-> IF v.wrote THEN v.status ELSE h.status,
                msg |-> v.msg, next |-> v.next,
                attached |-> v.attached, accessKey |-> v.accessKey,
                resolved |-> v.resolved, bodyRead |-> v.bodyRead,
                body |-> IF v.next > 0 THEN Forwarded(req, v.bodyRead).body ELSE "",
                call |-> IF v.next > 0 THEN h.call ELSE Idle,
                reads |-> bufferPayload(req, v.bodyRead).orig.reads,
                hashed |-> bufferPayload(req, v.bodyRead).hashed]
    /\ fs' = IF v.next > 0 THEN h.fs ELSE fs
    /\ UNCHANGED <<procs, last, nops, hist, sessions, req, sent, cfg, clock>>

\* The validator handles the request and, when it passes it on, the object
\* handler makes its storage call.
Serve ==
    /\ req # NoReq
    /\ ~resp.served
    /\ Served(AuthMiddleware(cfg, req, clock), ObjectHandler(fs, req))

NextAuth ==
    \/ SignRequest
    \/ SendUnsigned
    \/ ChangeSignatureByte
    \/ AppendToSignature
    \/ ChangeMethod
    \/ ChangeDate
    \/ ChangeBody
    \/ DropPayloadHash
    \/ ForgeAuthorization
    \/ ChangeCredentialDate
    \/ Serve

AuthSpec == InitAuth /\ [][NextAuth]_vars

(***************************************************************************)
(* CompleteSpec: each of two callers completes a session of its own into   *)
(* the same key, step by step, after whole UploadPart calls have staged    *)
(* parts 1 and 2 of both sessions.                                         *)
(***************************************************************************)
\* The session and the metadata of each caller's CompleteMultipart.
CompleteIDs == <<"upload-1", "upload-2">>
CompleteMetas == <<MetaOf("tag" :> "x"), MetaOf("tag" :> "y")>>

\* The bytes uploaded as part n of caller c's session.
StagedBody(c, n) == (IF c = 1 THEN "A" ELSE "B") \o Itoa(n)

\* A whole UploadPart of part 1 or 2 of one of the two sessions, before
\* either CompleteMultipart is called.
StagePart ==
    \E c \in Callers, n \in {1, 2} :
        LET r == Run(fs, UploadPartCall("b", "a", CompleteIDs[c], n, StagedBody(c, n)), 0)
        IN  /\ nops < MaxOps
            /\ \A d \in Callers : procs[d].op = "idle"
            /\ Done(r)

\* Caller c, not in a call yet, calls CompleteMultipart for its session.
BeginComplete ==
    \E c \in Callers :
        /\ procs[c].op = "idle"
        /\ procs' = [procs EXCEPT
                        ![c] = CompleteMultipartCall("b", "a", CompleteIDs[c],
                                                     CompleteMetas[c])]
        /\ UNCHANGED <<fs, last, nops, hist, sessions, authVars>>

NextComplete ==
    \/ StagePart
    \/ BeginComplete
    \/ StepAct

CompleteSpec == Init /\ [][NextComplete]_vars

(***************************************************************************)
(* StreamSpec: Get calls made step by step, their streams read or closed   *)
(* at any point, with whole Put, UploadPart, CompleteMultipart and Delete  *)
(* calls on the same key in between.                                       *)
(***************************************************************************)
\* The calls made around the Get calls: they give the key one part, a second
\* one, and remove it.
StreamCalls ==
    {PutCall("b", "a", "A"),
     UploadPartCall("b", "a", "upload-1", 2, "B"),
     CompleteMultipartCall("b", "a", "upload-1", NilMeta),
     DeleteCall("b", "a")}

\* One of StreamCalls, run to its return.
CallAround ==
    \E p \in StreamCalls :
        LET r == Run(fs, p, 0)
        IN  /\ nops < MaxOps
            /\ Done(r)

\* Caller c, not in a call yet, calls Get.
BeginGet ==
    \E c \in Callers, b \in Buckets, k \in Keys :
        /\ procs[c].op = "idle"
        /\ procs' = [procs EXCEPT ![c] = GetCall(b, k)]
        /\ UNCHANGED <<fs, last, nops, hist, sessions, authVars>>

\* The next step of caller c's Get: of Get itself, or a Read of its stream
\* up to the end of a part.
StepGet ==
    \E c \in Callers :
        LET s == GetStep(fs, procs[c], c)
        IN  /\ procs[c].op = "Get"
            /\ procs[c].pc \notin {"done", "closed"}
            /\ fs' = s.fs
            /\ procs' = [procs EXCEPT ![c] = s.p]
            /\ UNCHANGED <<last, nops, hist, sessions, authVars>>

\* Caller c calls Close on the stream its Get returned: before it has read
\* all of it, after it has read it to EOF, or once more.
CloseStream ==
    \E c \in Callers :
        LET s == multiReadCloserClose(fs, procs[c], c)
        IN  /\ procs[c].op = "Get"
            /\ \/ procs[c].pc \in {"read", "closed"}
               \/ procs[c].pc = "done" /\ procs[c].err = ""
            /\ fs' = s.fs
            /\ procs' = [procs EXCEPT ![c] = s.p]
            /\ UNCHANGED <<last, nops, hist, sessions, authVars>>

NextStream ==
    \/ CallAround
    \/ BeginGet
    \/ StepGet
    \/ CloseStream

StreamSpec == Init /\ [][NextStream]_vars

(***************************************************************************)
(* URISpec: a client percent-encodes a path once, or sends it as it is,    *)
(* and canonicalURI is applied to it and then to its own result.           *)
(***************************************************************************)
MaxPathLen == 3  \* bytes of a path before it is encoded
MaxApplications == 2  \* times canonicalURI is applied in one behaviour

\* The bytes paths are made of: unreserved ones, the space, "%", the
\* separator and a byte above 127.
PathAlphabet == "~25 %/" \o HighByte

RECURSIVE PathsOfLen(_)
PathsOfLen(n) ==
    IF n = 0 THEN {""}
    ELSE {s \o Char(PathAlphabet, i) :
            s \in PathsOfLen(n - 1), i \in 1..Len(PathAlphabet)}

RawPaths == UNION {PathsOfLen(n) : n \in 0..MaxPathLen}

InitURI ==
    /\ InitStore
    /\ req = NoReq
    /\ sent \in {[NoSent EXCEPT !.orig.path = s] : s \in RawPaths}
    /\ resp = NoResp
    /\ cfg = AuthConfig("", Seconds(0), TRUE, "test", "secret123")
    /\ clock = Now

\* The client percent-encodes the path once with awsURLEncode and puts the
\* result on the request line.
EncodePath ==
    /\ sent.change = "none"
    /\ req' = Request("GET", awsURLEncode(sent.orig.path, FALSE), "", "localhost",
                      <<>>, "")
    /\ sent' = [sent EXCEPT !.change = "encoded"]
    /\ UNCHANGED <<fs, procs, last, nops, hist, sessions, resp, cfg, clock>>

\* The client puts the path on the request line as it is.
SendRawPath ==
    /\ sent.change = "none"
    /\ req' = Request("GET", sent.orig.path, "", "localhost", <<>>, "")
    /\ sent' = [sent EXCEPT !.change = "raw"]
    /\ UNCHANGED <<fs, procs, last, nops, hist, sessions, resp, cfg, clock>>

\* canonicalURI applied to the path at hand; the result takes its place.
CanonicalizePath ==
    /\ sent.change # "none"
    /\ nops < MaxApplications
    /\ req' = [req EXCEPT !.path = canonicalURI(req.path)]
    /\ nops' = nops + 1
    /\ UNCHANGED <<fs, procs, last, hist, sessions, sent, resp, cfg, clock>>

NextURI ==
    \/ EncodePath
    \/ SendRawPath
    \/ CanonicalizePath

URISpec == InitURI /\ [][NextURI]_vars

(***************************************************************************)
(* PayloadSpec: clients sign requests without an X-Amz-Content-Sha256      *)
(* header, the body is changed on its way or not, and the validator in     *)
(* front of the object handler serves the request it has buffered.         *)
(***************************************************************************)
PayloadRequests ==
    {Request("PUT", "/v1/storage/b/a", "", "localhost", <<>>, body) :
        body \in {"", "A", "AB"}}
        \cup {Request("GET", "/v1/storage/b/a", "", "localhost", <<>>, "")}

\* A client signing request r for amzDate with the signed headers host and
\* x-amz-date: the hash of body is the last line of its canonical request
\* and no X-Amz-Content-Sha256 header is set.
SignUnhashed(r, accessKey, secret, body, amzDate) ==
    LET signedHdrs == "host;x-amz-date"
        canonicalHdrs == "host:" \o r.host \o "\n" \o "x-amz-date:" \o amzDate \o "\n"
        canonicalReq == JoinStrings(<<r.method, r.path, "", canonicalHdrs,
                                      signedHdrs, sha256Hex(body)>>, "\n")
        scope == JoinStrings(<<SubSeq(amzDate, 1, 8), "us-east-1", "holydb",
                               "aws4_request">>, "/")
        stringToSign == JoinStrings(<<"AWS4-HMAC-SHA256", amzDate, scope,
                                      sha256Hex(canonicalReq)>>, "\n")
        kDate == hmacSHA256("AWS4" \o secret, SubSeq(amzDate, 1, 8))
        kRegion == hmacSHA256(kDate, "us-east-1")
        kService == hmacSHA256(kRegion, "holydb")
        kSigning == hmacSHA256(kService, "aws4_request")
        sig == HexEncode(hmacSHA256(kSigning, stringToSign))
        authHeader == JoinStrings(<<"AWS4-HMAC-SHA256 Credential=" \o accessKey
                                       \o "/" \o scope,
                                    "SignedHeaders=" \o signedHdrs,
                                    "Signature=" \o sig>>, ",")
    IN  HeaderSet(HeaderSet(r, "X-Amz-Date", amzDate), "Authorization", authHeader)

SendUnhashed ==
    \E r \in PayloadRequests, k \in Signers, d \in AmzDates :
        /\ nops < MaxRequests
        /\ Send(SignUnhashed(r, k[1], k[2], r.body, d), k[1], k[2], d)

\* The state after the validator has answered v: the handler, when it is
\* called, gets the request with the body the validator has left it.
ServedBuffered(v) ==
    Served(v, ObjectHandler(fs, Forwarded(req, v.bodyRead)))

ServeBuffered ==
    /\ req # NoReq
    /\ ~resp.served
    /\ ServedBuffered(AuthMiddleware(cfg, req, clock))

NextPayload ==
    \/ SendUnhashed
    \/ ChangeBody
    \/ ServeBuffered

PayloadSpec == Init /\ [][NextPayload]_vars

(***************************************************************************)
(* ServerSpec: requests served by the handler of server.New, under the     *)
(* default configuration and the root pair of the environment.             *)
(***************************************************************************)
\* loggingMiddleware: it logs, writes nothing itself and calls the next
\* handler once.
loggingMiddleware == Pass(FALSE, "")

\* srv.Handler.ServeHTTP for the server of New: the router's only
\* middleware is loggingMiddleware, and the routes are those New registers.
ServeNew ==
    /\ req # NoReq
    /\ ~resp.served
    /\ Served(loggingMiddleware, Router(fs, req))

NextServer ==
    \/ SignRequest
    \/ SendUnsigned
    \/ AppendToSignature
    \/ ServeNew

ServerSpec == Init /\ [][NextServer]_vars

(***************************************************************************)
(* MarkerSpec: storage calls addressed to directory-marker keys (keys that *)
(* end in "/"), next to multipart sessions that stage parts.               *)
(***************************************************************************)
DirKeys == {"d/"}

PutDir ==
    \E b \in Buckets, k \in DirKeys, body \in Bodies :
          LET r == Run(fs, PutCall(b, k, body), 0)
          IN  /\ nops < MaxOps
              /\ Done(r)

PutWithMetadataDir ==
    \E b \in Buckets, k \in DirKeys, body \in Bodies, m \in Metas :
          LET r == Run(fs, PutWithMetadataCall(b, k, body, m), 0)
          IN  /\ nops < MaxOps
              /\ Done(r)

PutMetadataDir ==
    \E b \in Buckets, k \in DirKeys, m \in Metas :
          LET r == Run(fs, PutMetadataCall(b, k, m), 0)
          IN  /\ nops < MaxOps
              /\ Done(r)

CompleteMultipartDir ==
    \E b \in Buckets, k \in DirKeys, u \in UploadIDs, m \in Metas :
          LET r == Run(fs, CompleteMultipartCall(b, k, u, m), 0)
          IN  /\ nops < MaxOps
              /\ Done(r)

NextMarker ==
    \/ StartMultipart
    \/ UploadPart
    \/ PutDir
    \/ PutWithMetadataDir
    \/ PutMetadataDir
    \/ CompleteMultipartDir

MarkerSpec == Init /\ [][NextMarker]_vars

(***************************************************************************)
(* RequestSpec: requests that lack a parameter or carry a payload that is  *)
(* no JSON, served by the handler of server.New on a store that holds an   *)
(* object and a session with staged parts.                                 *)
(***************************************************************************)
InvalidRequests ==
    {Request("PUT", "/v1/storage/b/a", "", "localhost",
             "X-Meta-JSON" :> "{\"tag\":", "A"),
     Request("POST", "/v1/storage/b/a", "complete=upload-1", "localhost",
             "X-Meta-JSON" :> "{\"tag\":", ""),
     Request("PUT", "/v1/storage/b/.bucket.meta", "", "localhost", <<>>,
             "{\"capacity_bytes\":"),
     Request("PUT", "/v1/storage/b/a", "uploadId=upload-1", "localhost", <<>>, "A"),
     Request("PUT", "/v1/storage/b/a", "partNumber=1", "localhost", <<>>, "A"),
     Request("PUT", "/v1/storage/b/a", "uploadId=upload-1&partNumber=x", "localhost",
             <<>>, "A"),
     Request("POST", "/v1/storage/b/_reconstruct/a", "include=tag", "localhost",
             <<>>, "")}

\* A client sends one of the invalid requests.
SendInvalid ==
    \E r \in InvalidRequests :
        /\ nops < MaxOps
        /\ Send(r, "", "", "")

NextRequest ==
    \/ PutWithMetadata
    \/ StartMultipart
    \/ UploadPart
    \/ SendInvalid
    \/ ServeNew

RequestSpec == Init /\ [][NextRequest]_vars

(***************************************************************************)
(* AbortSpec: AbortMultipart with the upload IDs StartMultipart returns    *)
(* and with upload IDs of the caller's own making, next to committed       *)
(* objects and live sessions.                                              *)
(***************************************************************************)
UnallocatedIDs == {"upload-9", "../a"}

AbortUnallocated ==
    \E b \in Buckets, k \in Keys, u \in UnallocatedIDs :
          LET r == Run(fs, AbortMultipartCall(b, k, u), 0)
          IN  /\ nops < MaxOps
              /\ Done(r)

NextAbort ==
    \/ Put
    \/ StartMultipart
    \/ UploadPart
    \/ AbortMultipart
    \/ AbortUnallocated

AbortSpec == Init /\ [][NextAbort]_vars

(***************************************************************************)
(* ListingSpec: listings and statistics of a bucket that holds objects,    *)
(* among them one under a key with a dot-prefixed component, multipart     *)
(* sessions with staged parts, and bucket metadata.                        *)
(***************************************************************************)
NestedKeys == {"a/.b"}
ListPrefixes == {"", "a", "a/"}
BucketMetas == {[CapacityBytes |-> 7, RetentionDays |-> 1]}

PutNested ==
    \E b \in Buckets, k \in NestedKeys, body \in Bodies :
          LET r == Run(fs, PutCall(b, k, body), 0)
          IN  /\ nops < MaxOps
              /\ Done(r)

PutBucketMetadata ==
    \E b \in Buckets, bm \in BucketMetas :
          LET r == Run(fs, PutBucketMetadataCall(b, bm), 0)
          IN  /\ nops < MaxOps
              /\ Done(r)

List ==
    \E b \in Buckets, prefix \in ListPrefixes :
          LET r == Run(fs, ListCall(b, prefix), 0)
          IN  /\ nops < MaxOps
              /\ Done(r)

Stats ==
    \E b \in Buckets :
          LET r == Run(fs, StatsCall(b), 0)
          IN  /\ nops < MaxOps
              /\ Done(r)

NextListing ==
    \/ Put
    \/ PutNested
    \/ StartMultipart
    \/ UploadPart
    \/ PutBucketMetadata
    \/ List
    \/ Stats

ListingSpec == Init /\ [][NextListing]_vars

(***************************************************************************)
(* NamespaceSpec: calls addressed to bucket "b" under keys that are path   *)
(* prefixes of one another, the empty key, and keys and upload IDs with    *)
(* ".." components, next to an object of a second bucket, bucket metadata  *)
(* and staged parts.                                                       *)
(***************************************************************************)
OtherBucket == "c"
PrefixKeys == {"a", "a/b"}
AddressedKeys == PrefixKeys \cup {"", "../c/a"}
AddressedIDs == {"upload-1", "../../c/a"}

PutOther ==
    LET r == Run(fs, PutCall(OtherBucket, "a", "A"), 0)
    IN  /\ nops < MaxOps
        /\ Done(r)

PutAddressed ==
    \E b \in Buckets, k \in AddressedKeys, body \in PartBodies :
          LET r == Run(fs, PutCall(b, k, body), 0)
          IN  /\ nops < MaxOps
              /\ Done(r)

DeleteAddressed ==
    \E b \in Buckets, k \in AddressedKeys :
          LET r == Run(fs, DeleteCall(b, k), 0)
          IN  /\ nops < MaxOps
              /\ Done(r)

UploadPartAddressed ==
    \E b \in Buckets, u \in AddressedIDs :
          LET r == Run(fs, UploadPartCall(b, "a", u, 1, "A"), 0)
          IN  /\ nops < MaxOps
              /\ Done(r)

AbortAddressed ==
    \E b \in Buckets, u \in AddressedIDs :
          LET r == Run(fs, AbortMultipartCall(b, "a", u), 0)
          IN  /\ nops < MaxOps
              /\ Done(r)

NextNamespace ==
    \/ PutOther
    \/ PutAddressed
    \/ DeleteAddressed
    \/ UploadPartAddressed
    \/ AbortAddressed
    \/ PutBucketMetadata

NamespaceSpec == Init /\ [][NextNamespace]_vars

(***************************************************************************)
(* Properties of the storage engine under Spec.                            *)
(***************************************************************************)
\* The parts of a map part number -> content, joined in ascending numeric
\* order of the part numbers.
RECURSIVE NumericConcat(_)
NumericConcat(parts) ==
    IF DOMAIN parts = {} THEN ""
    ELSE LET n == CHOOSE m \in DOMAIN parts : \A k \in DOMAIN parts : m <= k
         IN  parts[n] \o NumericConcat([k \in DOMAIN parts \ {n} |-> parts[k]])

LastIsPut == last.p.op \in {"Put", "PutWithMetadata"}

\* What the output file of Reconstruct holds after its header, in
\* filesystem state f; <<>> when Reconstruct fails.
ReconstructedParts(f, b, k) ==
    LET r == Run(f, ReconstructCall(b, k, "/out/obj.bin", <<>>), 0)
        out == r.fs.files[r.p.outPath]
        hdr == 8 + Len(MarshalMap(r.p.header))
    IN  IF r.p.err # "" THEN <<>> ELSE SubSeq(out, hdr + 1, Len(out))

\* C1: a Put or PutWithMetadata of content c (the empty content included)
\* on a key that holds no part succeeds, and the Get that follows succeeds
\* and reads exactly c.
RoundTrip ==
    (LastIsPut /\ ~last.hadParts) =>
        /\ last.p.err = ""
        /\ GetOf(fs, last.p.bucket, last.p.key).err = ""
        /\ GetOf(fs, last.p.bucket, last.p.key).data = last.p.body

\* A Put of the empty content on a fresh key has returned and Get reads "".
RoundTripEmpty ==
    /\ last.p.op = "Put" /\ ~last.hadParts /\ last.p.body = ""
    /\ last.p.err = ""
    /\ GetOf(fs, last.p.bucket, last.p.key).err = ""
    /\ GetOf(fs, last.p.bucket, last.p.key).data = ""

\* C2: after a successful Put or PutWithMetadata of content c, whatever the
\* key held before, Get reads exactly c and GetMetadata returns exactly the
\* metadata of that call.
PutOverwrites ==
    (LastIsPut /\ last.p.err = "") =>
        /\ GetOf(fs, last.p.bucket, last.p.key).err = ""
        /\ GetOf(fs, last.p.bucket, last.p.key).data = last.p.body
        /\ GetMetadataOf(fs, last.p.bucket, last.p.key).err = ""
        /\ GetMetadataOf(fs, last.p.bucket, last.p.key).outMeta = last.p.meta

\* C3: after CompleteMultipart has succeeded for a session that
\* StartMultipart opened, on a key that held no part, Get reads the staged
\* parts joined in ascending part number, whatever the order of the uploads.
MultipartOrderIndependence ==
    (/\ last.p.op = "CompleteMultipart" /\ last.p.err = ""
     /\ ~last.hadParts /\ DOMAIN last.staged # {}) =>
        /\ GetOf(fs, last.p.bucket, last.p.key).err = ""
        /\ GetOf(fs, last.p.bucket, last.p.key).data = NumericConcat(last.staged)

\* C4: for every object whose part numbers differ in their number of
\* digits, Get and Reconstruct emit the parts in ascending numeric order.
NumericPartOrder ==
    \A b \in Buckets, k \in Keys :
        LET parts == PartsByNumber(fs, JoinPath(JoinPath(Root, b), k))
        IN  (\E m, n \in DOMAIN parts : Len(Itoa(m)) # Len(Itoa(n))) =>
                /\ GetOf(fs, b, k).err = "" =>
                        GetOf(fs, b, k).data = NumericConcat(parts)
                /\ GetMetadataOf(fs, b, k).err = "" =>
                        ReconstructedParts(fs, b, k) = Bytes(NumericConcat(parts))

(***************************************************************************)
(* Properties of the storage engine under SpecSteps.                       *)
(***************************************************************************)
\* The metadata records a call of the model can write, as stored.
StoredMetas ==
    {MarshalMeta(p.meta) : p \in {q \in StepCalls : WritesMeta(q)}}

\* C5: as long as no two metadata writers overlap, a GetMetadata that runs
\* while a metadata write on its key is in progress returns a complete
\* mapping that its key held at some moment of the call, or not-found if
\* the key held none at some moment; never a malformed record.
MetadataAtomicity ==
    ~hist.overlap =>
        \A c \in Callers :
            (procs[c].op = "GetMetadata" /\ procs[c].pc = "done") =>
                \/ /\ procs[c].err = "ENOENT"
                   /\ \E s \in hist.seen[c] : ~s.present
                \/ /\ procs[c].err = ""
                   /\ \E s \in hist.seen[c] :
                         /\ s.present
                         /\ s.data \in StoredMetas
                         /\ UnmarshalMeta(s.data).err = ""
                         /\ UnmarshalMeta(s.data).meta = procs[c].outMeta

\* A GetMetadata has returned a stored mapping while the only metadata
\* writer on its key stands between writing data.meta.tmp and renaming it,
\* and the key's record changed during the read.
ReadDuringWrite ==
    /\ ~hist.overlap
    /\ \E r, w \in Callers :
          /\ procs[r].op = "GetMetadata" /\ procs[r].pc = "done"
          /\ procs[r].err = "" /\ ~procs[r].outMeta.isNil
          /\ Cardinality(hist.seen[r]) > 1
          /\ WritesMeta(procs[w]) /\ procs[w].pc = "meta_rename"
          /\ procs[w].key = procs[r].key

\* C6: in every state of a run whose calls never overlap, a crash between
\* two filesystem steps included, if a key's metadata record is present and
\* was committed with an object's parts, then exactly those parts are in
\* place in the object directory, also when the key held an object before
\* the call began.
MetadataSignalsCommit ==
    ~hist.concurrent =>
        \A d \in DOMAIN hist.committed :
            (MetaState(fs, d).present /\ DOMAIN hist.committed[d] # {}) =>
                PartsByNumber(fs, d) = hist.committed[d]

(***************************************************************************)
(* Properties of the validator under AuthSpec.                             *)
(***************************************************************************)
\* The distance between the moments now and t, whichever is the later, is at
\* most tol.
WithinSkew(now, t, tol) ==
    /\ ~Shorter(tol, Elapsed(now, t))
    /\ ~Shorter(tol, Elapsed(t, now))

\* The request in flight is as buildSigV4 signed it: with the root pair the
\* resolver knows, for the region and service of the configuration, for a
\* moment within the clock skew (the credential date is that moment's date).
SignedCorrectly ==
    /\ "Authorization" \in DOMAIN sent.orig.header
    /\ sent.change = "none"
    /\ SecretFor(cfg, sent.accessKey) = [secret |-> sent.secret, ok |-> TRUE]
    /\ cfg.Region = "us-east-1" /\ cfg.Service = "holydb"
    /\ WithinSkew(clock, ParseAmzDate(sent.amzDate), cfg.ClockSkew)

\* The validator answered 401 with one of msgs and did not call the handler.
Rejected(msgs) ==
    /\ resp.wrote /\ resp.status = 401 /\ resp.msg \in msgs
    /\ resp.next = 0 /\ resp.call = Idle

\* The validator wrote nothing and called the handler once.
Admitted == ~resp.wrote /\ resp.next = 1 /\ resp.call # Idle

\* C7: a correctly signed request (known access key, configured region and
\* service, credential date of the timestamp, timestamp within the clock
\* skew) is admitted: the handler is called and finds the access key in the
\* request context.
SigV4Acceptance ==
    (resp.served /\ SignedCorrectly) =>
        /\ Admitted
        /\ resp.call.op \in {"PutWithMetadata", "Get"}
        /\ resp.attached /\ resp.accessKey = sent.accessKey

\* A PUT signed for the moment 300 s ahead of the server's clock has been
\* admitted with the access key "test" and has stored its object.
AcceptedAtSkewLimit ==
    /\ resp.served /\ SignedCorrectly
    /\ sent.amzDate = "20240101T000700Z"
    /\ Admitted /\ resp.attached /\ resp.accessKey = "test"
    /\ resp.call.op = "PutWithMetadata" /\ resp.call.err = ""
    /\ resp.status = 201

ParsedAuthorization(r) ==
    parseAuthHeader(SubSeq(HeaderGet(r, "Authorization"),
                           Len("AWS4-HMAC-SHA256 ") + 1,
                           Len(HeaderGet(r, "Authorization")))).ah

\* The rejection a changed X-Amz-Date d gets for a request signed for the
\* credential date datePart: that of the first step it fails.
DateRejection(d, datePart) ==
    IF d = "" THEN "missing X-Amz-Date"
    ELSE IF ~ParseAmzDate(d).ok THEN "bad X-Amz-Date"
    ELSE IF Shorter(cfg.ClockSkew, absDuration(Since(clock, ParseAmzDate(d))))
    THEN "request expired"
    ELSE IF ~HasPrefix(d, datePart) THEN "date scope mismatch"
    ELSE "signature mismatch"

BodyTamperRejected ==
    (resp.served /\ sent.admitted /\ sent.change = "body") =>
        /\ Rejected({"signature mismatch"})
        /\ resp.body # req.body

\* Every step of the validator's pipeline passes for request r at time now.
PipelinePasses(c, r, now) ==
    LET authz == HeaderGet(r, "Authorization")
        ah == ParsedAuthorization(r)
        d == HeaderGet(r, "X-Amz-Date")
        cr == buildCanonicalRequest(r, ah.SignedHeaders, ensurePayloadHash(r))
    IN  /\ authz # ""
        /\ HasPrefix(authz, "AWS4-HMAC-SHA256 ")
        /\ Len(ah.CredentialParts) # 0 /\ Len(ah.SignedHeaders) # 0
        /\ ah.Signature # ""
        /\ Len(ah.CredentialParts) = 5 /\ ah.CredentialParts[5] = "aws4_request"
        /\ ah.CredentialParts[3] = c.Region /\ ah.CredentialParts[4] = c.Service
        /\ SecretFor(c, ah.CredentialParts[1]).ok
        /\ d # "" /\ ParseAmzDate(d).ok
        /\ ~Shorter(c.ClockSkew, absDuration(Since(now, ParseAmzDate(d))))
        /\ HasPrefix(d, ah.CredentialParts[2])
        /\ cr.err = ""
        /\ ah.Signature = ExpectedSig(SecretFor(c, ah.CredentialParts[1]).secret,
                                      ah, d, cr.text)

\* The outcome of a served request is one of the two whole ones, and the
\* handler is called exactly when the pipeline passes or an anonymous
\* request meets a configuration that does not require authentication.
WholeOutcome ==
    resp.served =>
        /\ \/ /\ resp.wrote /\ resp.status = 401 /\ resp.next = 0
              /\ resp.call = Idle /\ resp.body = ""
           \/ /\ ~resp.wrote /\ resp.next = 1
        /\ resp.next = 1 <=>
              \/ PipelinePasses(cfg, req, clock)
              \/ HeaderGet(req, "Authorization") = "" /\ ~cfg.RequireAuth
        /\ (resp.next = 1 /\ HeaderGet(req, "Authorization") = "") =>
              ~resp.attached

\* C10: the validator either answers 401 and does not call the handler, or
\* calls the handler once and answers nothing itself; it calls the handler
\* iff every step of the pipeline passes or the request has no Authorization
\* header and authentication is not required (then without an identity); and
\* serving a request it rejects leaves the store as it was.
NeverPartialAdmission ==
    /\ []WholeOutcome
    /\ [][(~resp.served /\ resp'.served /\ resp'.wrote) => fs' = fs]_vars

\* A PUT without credentials was served where authentication is not
\* required: the handler ran without an identity and stored the object.
AnonymousAdmitted ==
    /\ resp.served /\ ~cfg.RequireAuth
    /\ HeaderGet(req, "Authorization") = ""
    /\ Admitted /\ ~resp.attached /\ resp.accessKey = ""
    /\ resp.call.op = "PutWithMetadata" /\ resp.call.err = ""
    /\ fs # EmptyFS

(***************************************************************************)
(* The steps of the validator one by one, under AuthSpec.                  *)
(***************************************************************************)
\* Request r gets as far as the skew check of configuration c: it has an
\* Authorization header of the scheme with the three fields, a credential
\* scope of five components for c's region and service, an access key the
\* resolver knows, and an X-Amz-Date that parses.
ReachesSkewCheck(c, r) ==
    LET authz == HeaderGet(r, "Authorization")
        ah == ParsedAuthorization(r)
        d == HeaderGet(r, "X-Amz-Date")
    IN  /\ authz # ""
        /\ HasPrefix(authz, "AWS4-HMAC-SHA256 ")
        /\ Len(ah.CredentialParts) # 0 /\ Len(ah.SignedHeaders) # 0
        /\ ah.Signature # ""
        /\ Len(ah.CredentialParts) = 5 /\ ah.CredentialParts[5] = "aws4_request"
        /\ ah.CredentialParts[3] = c.Region /\ ah.CredentialParts[4] = c.Service
        /\ SecretFor(c, ah.CredentialParts[1]).ok
        /\ d # "" /\ ParseAmzDate(d).ok

\* C11: the tolerance is the configured one, or 5 minutes when zero is
\* configured; a request that gets as far as the skew check with an
\* X-Amz-Date further from the server's time than the tolerance, before or
\* after it, is rejected with "request expired", correctly signed or not;
\* one at most the tolerance away is not rejected with "request expired".
ClockSkewTolerance ==
    /\ cfg.ClockSkew = IF cfg.given = Seconds(0) THEN Seconds(300) ELSE cfg.given
    /\ (resp.served /\ ReachesSkewCheck(cfg, req)) =>
          IF WithinSkew(clock, ParseAmzDate(HeaderGet(req, "X-Amz-Date")),
                        cfg.ClockSkew)
          THEN resp.msg # "request expired"
          ELSE Rejected({"request expired"})

\* Request r gets as far as the date-scope check of configuration c at the
\* moment now: as far as the skew check, which it passes.
ReachesDateScopeCheck(c, r, now) ==
    /\ ReachesSkewCheck(c, r)
    /\ ~Shorter(c.ClockSkew,
                absDuration(Since(now, ParseAmzDate(HeaderGet(r, "X-Amz-Date")))))

\* C12: a request with credentials is admitted only if the credential date
\* of its scope equals the first 8 characters of its X-Amz-Date; a request
\* that gets as far as the date-scope check with another credential date (a
\* shorter one, an empty one) is rejected with "date scope mismatch", also
\* when it is signed consistently for that credential date.
DateScopeEquality ==
    resp.served =>
        /\ (resp.next = 1 /\ HeaderGet(req, "Authorization") # "") =>
              ParsedAuthorization(req).CredentialParts[2] =
                  SubSeq(HeaderGet(req, "X-Amz-Date"), 1, 8)
        /\ (/\ ReachesDateScopeCheck(cfg, req, clock)
            /\ ParsedAuthorization(req).CredentialParts[2] #
                   SubSeq(HeaderGet(req, "X-Amz-Date"), 1, 8)) =>
              Rejected({"date scope mismatch"})

\* The checks of the validator in their stated order, each with whether
\* request r fails it under configuration c at the moment now (a check
\* that has nothing to look at, because the data it reads is missing, does
\* not fail) and the message of its rejection.
ChecksOf(c, now, authz, ah, cp, d, cr) ==
        << [step |-> "presence", msg |-> "missing Authorization header",
            fails |-> authz = ""],
           [step |-> "scheme", msg |-> "invalid auth scheme",
            fails |-> ~HasPrefix(authz, "AWS4-HMAC-SHA256 ")],
           [step |-> "parse", msg |-> "malformed Authorization",
            fails |-> \/ Len(cp) = 0 \/ Len(ah.SignedHeaders) = 0
                      \/ ah.Signature = ""],
           [step |-> "parse", msg |-> "invalid credential scope",
            fails |-> Len(cp) # 5 \/ cp[5] # "aws4_request"],
           [step |-> "scope", msg |-> "invalid region/service",
            fails |-> \/ Len(cp) >= 3 /\ cp[3] # c.Region
                      \/ Len(cp) >= 4 /\ cp[4] # c.Service],
           [step |-> "resolver", msg |-> "unknown access key",
            fails |-> Len(cp) >= 1 /\ ~SecretFor(c, cp[1]).ok],
           [step |-> "timestamp", msg |-> "missing X-Amz-Date",
            fails |-> d = ""],
           [step |-> "timestamp", msg |-> "bad X-Amz-Date",
            fails |-> d # "" /\ ~ParseAmzDate(d).ok],
           [step |-> "skew", msg |-> "request expired",
            fails |-> /\ ParseAmzDate(d).ok
                      /\ Shorter(c.ClockSkew, absDuration(Since(now, ParseAmzDate(d))))],
           [step |-> "date scope", msg |-> "date scope mismatch",
            fails |-> Len(cp) >= 2 /\ ~HasPrefix(d, cp[2])],
           [step |-> "canonical request", msg |-> "canonical request error",
            fails |-> Len(ah.SignedHeaders) # 0 /\ cr.err # ""],
           [step |-> "signature", msg |-> "signature mismatch",
            fails |-> /\ Len(cp) = 5 /\ cr.err = ""
                      /\ ah.Signature # ExpectedSig(SecretFor(c, cp[1]).secret, ah, d,
                                                    cr.text)] >>

ChecksFor(c, r, now, ah) ==
    ChecksOf(c, now, HeaderGet(r, "Authorization"), ah, ah.CredentialParts,
             HeaderGet(r, "X-Amz-Date"),
             buildCanonicalRequest(r, ah.SignedHeaders, ensurePayloadHash(r)))

Checks(c, r, now) == ChecksFor(c, r, now, ParsedAuthorization(r))

\* The position of the first check of cs that fails, 0 when none does.
FirstFailure(cs) ==
    IF \E i \in DOMAIN cs : cs[i].fails
    THEN CHOOSE i \in DOMAIN cs : cs[i].fails /\ \A j \in 1..(i - 1) : ~cs[j].fails
    ELSE 0

\* The outcome the stated order asks for, for the first failing check at
\* position i of cs: the message of that check, the resolver called once
\* when the checks before it have passed, the body read only when the
\* checks before the payload hash have passed.
FirstOutcome(cs, i) ==
    /\ IF i = 0 THEN Admitted /\ resp.msg = ""
       ELSE Rejected({cs[i].msg})
    /\ resp.resolved = IF i = 0 \/ cs[i].step \notin {"presence", "scheme", "parse",
                                                       "scope"}
                       THEN 1 ELSE 0
    /\ resp.bodyRead =>
          /\ i = 0 \/ cs[i].step \in {"canonical request", "signature"}
          /\ HeaderGet(req, "X-Amz-Content-Sha256") = ""

OrderedOutcome(cs) == FirstOutcome(cs, FirstFailure(cs))

\* C13: the rejection of a served request is that of the first check, in
\* the stated order, that the request fails; the resolver is not called and
\* the body is not read when an earlier check has failed; a request that
\* fails no check is admitted.  (A request without an Authorization header
\* where authentication is not required is passed on without any check.)
FixedOrderShortCircuit ==
    resp.served =>
        IF HeaderGet(req, "Authorization") = "" /\ ~cfg.RequireAuth
        THEN Admitted /\ resp.resolved = 0 /\ ~resp.bodyRead
        ELSE OrderedOutcome(Checks(cfg, req, clock))

\* A request that fails two checks, the region of the scope and the access
\* key, was rejected for the earlier one, and the resolver was not called.
SeveralFailuresFirstReported ==
    /\ resp.served
    /\ Checks(cfg, req, clock)[5].fails /\ Checks(cfg, req, clock)[6].fails
    /\ Rejected({"invalid region/service"})
    /\ resp.resolved = 0

(***************************************************************************)
(* The handler of server.New, under ServerSpec.                            *)
(***************************************************************************)
\* C14: a PUT served by the handler of server.New has passed the validator
\* before any storage call: without an Authorization header it gets 401 and
\* no storage call is made, correctly signed it gets 201 and part.1 of the
\* object exists, with "00" appended to its signature it gets 401 and no
\* storage call is made.
ValidatorBeforeStorage ==
    (resp.served /\ req.method = "PUT") =>
        /\ HeaderGet(req, "Authorization") = "" =>
              resp.status = 401 /\ resp.call = Idle
        /\ SignedCorrectly =>
              /\ resp.status = 201
              /\ Root \o <<"b", "a", "part.1">> \in DOMAIN fs.files
        /\ (sent.change = "signature tail"
              /\ req.header["Authorization"] = sent.orig.header["Authorization"] \o "00") =>
              resp.status = 401 /\ resp.call = Idle

(***************************************************************************)
(* Multipart sessions and directory-marker keys, under Spec.               *)
(***************************************************************************)
\* C15: once a session has been ended by a successful CompleteMultipart or
\* AbortMultipart, an UploadPart or CompleteMultipart that names its upload
\* ID in its bucket returns an error and leaves the filesystem as it was,
\* until StartMultipart returns the upload ID again.
SessionsTerminal ==
    [][(/\ nops' = nops + 1
        /\ last'.p.op \in {"UploadPart", "CompleteMultipart"}
        /\ <<last'.p.bucket, last'.p.uploadID>> \in hist.ended)
       => (last'.p.err # "" /\ fs' = fs)]_vars

\* What the filesystem f holds at and below directory d.
TreeAt(f, d) ==
    [dirs |-> {q \in f.dirs : IsUnder(q, d)},
     files |-> [q \in {x \in DOMAIN f.files : IsUnder(x, d)} |-> f.files[q]]]

\* Object directory d of f has a metadata record and no part.
MetaWithoutParts(f, d) == MetaState(f, d).present /\ PartsIn(f, d) = <<>>

\* C16: a CompleteMultipart whose staging area does not exist, or exists
\* and holds no part, returns an error and leaves what is stored at its key
\* as it was (no object directory, part or metadata record appears or
\* changes); no CompleteMultipart makes an object with metadata and no
\* parts.
CompletePreconditions ==
    [][(nops' = nops + 1 /\ last'.p.op = "CompleteMultipart") =>
          /\ (PartDir(last'.p) \notin fs.dirs \/ PartsIn(fs, PartDir(last'.p)) = <<>>) =>
                /\ last'.p.err # ""
                /\ TreeAt(fs', ObjDir(last'.p)) = TreeAt(fs, ObjDir(last'.p))
          /\ MetaWithoutParts(fs', ObjDir(last'.p)) =>
                MetaWithoutParts(fs, ObjDir(last'.p))]_vars

(***************************************************************************)
(* Directory-marker keys, under MarkerSpec.                                *)
(***************************************************************************)
\* C17: a CompleteMultipart whose key ends in "/" returns an error and
\* leaves the staging area and what is stored at the key as they were: no
\* part is renamed, no metadata record written.
CompleteRejectsDirectoryKey ==
    [][(/\ nops' = nops + 1
        /\ last'.p.op = "CompleteMultipart"
        /\ HasSuffix(last'.p.key, "/"))
       => /\ last'.p.err # ""
          /\ TreeAt(fs', PartDir(last'.p)) = TreeAt(fs, PartDir(last'.p))
          /\ TreeAt(fs', ObjDir(last'.p)) = TreeAt(fs, ObjDir(last'.p))]_vars

\* C18: whatever Put, PutWithMetadata, PutMetadata, UploadPart and
\* CompleteMultipart calls were made, the directory of no key that ends in
\* "/" holds a part file or a metadata record.
DirectoryKeysOwnNothing ==
    \A b \in Buckets, k \in DirKeys :
        /\ PartsIn(fs, ObjDir(GetCall(b, k))) = <<>>
        /\ ~MetaState(fs, ObjDir(GetCall(b, k))).present

(***************************************************************************)
(* Listings and statistics, under ListingSpec.                             *)
(***************************************************************************)
\* The path components of a listed key.
Components(key) == Split(key, "/")

\* C19: no key that List returns has a path component beginning with ".":
\* neither a staging path nor the bucket-metadata path nor anything else
\* below a dot-prefixed name is listed.
ListHidesDotComponents ==
    last.p.op = "List" =>
        \A i \in 1..Len(last.p.list) :
            \A j \in 1..Len(Components(last.p.list[i])) :
                ~HasPrefix(Components(last.p.list[i])[j], ".")

\* The bytes of the part files of the committed objects below base: the
\* part files outside the bucket's dot-prefixed entries (.multipart, where
\* sessions stage their parts, and the bucket metadata).
RECURSIVE CommittedBytes(_, _, _)
CommittedBytes(f, base, S) ==
    IF S = {} THEN 0
    ELSE LET q == CHOOSE x \in S : TRUE
             parts == RelParts(base, q)
         IN  (IF /\ HasPrefix(Base(q), "part.")
                 /\ ~HasPrefix(parts[1], ".")
              THEN Len(f.files[q]) ELSE 0) + CommittedBytes(f, base, S \ {q})

\* C20: used_bytes, as Stats returns it, is the sum of the sizes of the
\* part files of committed objects; parts staged under .multipart by a
\* session not yet completed add nothing to it.
StatsExcludesStagedParts ==
    last.p.op = "Stats" =>
        last.p.stats.UsedBytes =
            CommittedBytes(fs, BucketDir(last.p), WalkFiles(fs, BucketDir(last.p)))

(***************************************************************************)
(* Delete and AbortMultipart, under Spec.                                  *)
(***************************************************************************)
\* Nothing is stored at path d: no directory, no file.
Absent(f, d) == d \notin f.dirs /\ d \notin DOMAIN f.files

StagingOf(p, u) == BucketDir(p) \o <<".multipart", u>>

\* C22: AbortMultipart returns no error whatever the upload ID; afterwards
\* the ID has no staging area, and what is stored at every key and in the
\* staging area of every other upload ID is as before.
AbortAlwaysSucceeds ==
    [][(nops' = nops + 1 /\ last'.p.op = "AbortMultipart")
       => /\ last'.p.err = ""
          /\ Absent(fs', PartDir(last'.p))
          /\ \A k \in Keys :
                 TreeAt(fs', JoinPath(BucketDir(last'.p), k))
                     = TreeAt(fs, JoinPath(BucketDir(last'.p), k))
          /\ \A u \in UploadIDs \ {last'.p.uploadID} :
                 TreeAt(fs', StagingOf(last'.p, u))
                     = TreeAt(fs, StagingOf(last'.p, u))]_vars

(***************************************************************************)
(* Upload IDs, under StartSpec.                                            *)
(***************************************************************************)
\* C23: the upload ID a StartMultipart returns names no staging area that
\* existed in the bucket when the call made it, and is the ID of no session
\* that is live, whether the other StartMultipart calls ran before it or
\* interleaved with it.
FreshUploadID ==
    [][\A c \in Callers :
          (/\ procs[c].op = "StartMultipart"
           /\ procs[c].pc # "done"
           /\ procs'[c].pc = "done"
           /\ procs'[c].err = "")
          => /\ Absent(fs, StagingOf(procs[c], procs'[c].id))
             /\ StagingOf(procs[c], procs'[c].id) \in fs'.dirs
             /\ <<procs[c].bucket, procs'[c].id>> \notin sessions]_vars

\* Two StartMultipart calls that drew the same random suffixes have run
\* interleaved and both sessions are live.
ConcurrentStartsSameDraws ==
    /\ hist.concurrent
    /\ \A c \in Callers :
           /\ procs[c].op = "StartMultipart"
           /\ procs[c].pc = "done"
           /\ procs[c].err = ""
           /\ procs[c].rnd = <<"1", "2">>
           /\ <<procs[c].bucket, procs[c].id>> \in sessions
    /\ procs[1].id # procs[2].id

(***************************************************************************)
(* The artifact of Reconstruct, under Spec.                                *)
(***************************************************************************)
\* The number whose big-endian bytes are bs.
RECURSIVE BigEndianValue(_)
BigEndianValue(bs) ==
    IF bs = <<>> THEN 0
    ELSE 256 * BigEndianValue(SubSeq(bs, 1, Len(bs) - 1)) + bs[Len(bs)]

\* The string whose bytes are bs.
RECURSIVE StringOf(_)
StringOf(bs) == IF bs = <<>> THEN "" ELSE Chr(Head(bs)) \o StringOf(Tail(bs))

\* The mapping the header of the artifact must decode to, for metadata m
\* and includeKeys K.
ExpectedHeader(m, K) ==
    [k \in (({K[i] : i \in 1..Len(K)} \cup {"filename"}) \cap DOMAIN m.kv)
        |-> m.kv[k]]

\* The artifact out is 8 bytes of big-endian length L, L bytes of JSON that
\* decode to the mapping hdr, and then exactly the bytes body.
ArtifactIs(out, hdr, body) ==
    /\ Len(out) >= 8
    /\ LET L == BigEndianValue(SubSeq(out, 1, 8))
       IN  /\ Len(out) >= 8 + L
           /\ UnmarshalMeta(StringOf(SubSeq(out, 9, 8 + L))).err = ""
           /\ UnmarshalMeta(StringOf(SubSeq(out, 9, 8 + L))).meta.kv = hdr
           /\ SubSeq(out, 9 + L, Len(out)) = body

\* C24: the file a successful Reconstruct has written is the 8-byte
\* big-endian length of the header, the JSON of exactly the included
\* metadata keys the object has plus "filename" when it has one, and the
\* parts of the object joined in ascending part number, nothing after them.
ReconstructExact ==
    (last.p.op = "Reconstruct" /\ last.p.err = "") =>
        ArtifactIs(fs.files[last.p.outPath],
                   ExpectedHeader(GetMetadataOf(fs, last.p.bucket, last.p.key).outMeta,
                                  last.p.includeKeys),
                   Bytes(NumericConcat(PartsByNumber(fs, ObjDir(last.p)))))

(***************************************************************************)
(* Invalid requests, under RequestSpec.                                    *)
(***************************************************************************)
\* The request lacks a parameter it needs or carries a payload that is no
\* JSON: a malformed X-Meta-JSON on an object PUT or a multipart complete, a
\* bucket-metadata PUT whose body is no JSON, a part upload with only one of
\* uploadId and partNumber or with a partNumber that is no number, a
\* reconstruct without out.
IsInvalid(r, comps, q) ==
    \/ /\ HeaderGet(r, "X-Meta-JSON") # ""
       /\ UnmarshalMeta(HeaderGet(r, "X-Meta-JSON")).err # ""
    \/ /\ r.method = "PUT"
       /\ comps[Len(comps)] = ".bucket.meta"
       /\ UnmarshalBucketMetadata(r.body).err # ""
    \/ /\ r.method = "PUT"
       /\ (QueryGet(q, "uploadId") = "") # (QueryGet(q, "partNumber") = "")
    \/ /\ r.method = "PUT"
       /\ QueryGet(q, "uploadId") # ""
       /\ QueryGet(q, "partNumber") # ""
       /\ ~IsDigits(QueryGet(q, "partNumber"))
    \/ /\ r.method = "POST"
       /\ Len(comps) >= 6 /\ comps[5] = "_reconstruct"
       /\ QueryGet(q, "out") = ""

\* C25: an invalid request is answered with an error status and leaves the
\* store as it was: no part, metadata record, staging entry or output file
\* is written.
InvalidRequestRejected ==
    [][(/\ ~resp.served /\ resp'.served
        /\ IsInvalid(req, Split(req.path, "/"), ParseQuery(req.rawQuery)))
       => (resp'.status >= 400 /\ fs' = fs)]_vars

(***************************************************************************)
(* Independent keys, under PairSpec.                                       *)
(***************************************************************************)
\* The directory of caller c's key.
PairDir(c) == JoinPath(JoinPath(Root, "b"), PairKeys[c])

\* C26: with the calls on two keys, neither a path prefix of the other,
\* interleaved at their filesystem steps, every call of a caller is where
\* it would be and has returned what it would have returned had the calls on
\* its key run alone, and what is stored at its key is the same.
IndependentKeys ==
    \A c \in Callers :
        /\ procs[c] = hist.solo[c].p
        /\ TreeAt(fs, PairDir(c)) = TreeAt(hist.solo[c].fs, PairDir(c))

\* Two calls that write have run interleaved, one on each key, and both
\* objects are stored.
BothKeysWrittenConcurrently ==
    /\ hist.concurrent
    /\ \A c \in Callers :
           /\ procs[c].op \in {"Put", "PutWithMetadata"}
           /\ procs[c].pc = "done"
           /\ procs[c].err = ""
           /\ Append(PairDir(c), "part.1") \in DOMAIN fs.files
           /\ Append(PairDir(c), "data.meta") \in DOMAIN fs.files

(***************************************************************************)
(* What List returns, under ListingSpec.                                   *)
(***************************************************************************)
\* Key k of the bucket at base owns a part or a metadata record.
Stored(f, base, k) ==
    \/ PartsIn(f, JoinPath(base, k)) # <<>>
    \/ MetaState(f, JoinPath(base, k)).present

\* Key k has a path component that begins with the reserved marker.
Reserved(k) ==
    \E j \in 1..Len(Components(k)) : HasPrefix(Components(k)[j], ".")

\* C27: List returns no error and leaves the filesystem as it is (a bucket
\* that does not exist is not created and gives the empty list); the list
\* is, in ascending lexical order and without duplicates, exactly the keys
\* of the stored objects without a reserved component that start with the
\* prefix as a string.
ListExact ==
    [][(nops' = nops + 1 /\ last'.p.op = "List")
       => /\ last'.p.err = ""
          /\ fs' = fs
          /\ last'.p.list =
                 SortStrings({k \in Keys \cup NestedKeys :
                                 /\ Stored(fs, BucketDir(last'.p), k)
                                 /\ ~Reserved(k)
                                 /\ HasPrefix(k, last'.p.prefix)})]_vars

\* What a single percent-encoding makes of the bytes of PathAlphabet that
\* are not kept: "%" and two upper-case hex digits.
EncodedByte == (" " :> "%20") @@ ("%" :> "%25") @@ (HighByte :> "%E9")

SingleEncoding(s) ==
    Concat([i \in 1..Len(s) |->
               IF Char(s, i) \in DOMAIN EncodedByte THEN EncodedByte[Char(s, i)]
               ELSE Char(s, i)])

\* C28: canonicalURI applied to the once-percent-encoded form of a path
\* gives the single encoding of the path (unreserved bytes and "/" kept,
\* every other byte as upper-case %XX), canonicalURI applied to its own
\* result changes nothing, and the empty path gives "/".
CanonicalURIRoundTrip ==
    [][nops' = nops + 1 =>
          /\ (nops = 0 /\ sent.change = "encoded" /\ sent.orig.path # "") =>
                req'.path = SingleEncoding(sent.orig.path)
          /\ nops >= 1 => req'.path = req.path
          /\ req.path = "" => req'.path = "/"]_vars

\* A path of a space, a "%" and a byte above 127 was encoded once and
\* canonicalURI applied twice: the result is the single encoding.
EncodedPathCanonicalizedTwice ==
    /\ nops = 2
    /\ sent.change = "encoded"
    /\ sent.orig.path = " %" \o HighByte
    /\ req.path = "%20%25%E9"

\* Whether some part file of directory d is in g and was not in f, or has
\* other content in g than in f: a part created, written or moved into d.
PartsWritten(f, g, d) ==
    \E q \in DOMAIN g.files :
        /\ Len(q) = Len(d) + 1
        /\ IsUnder(q, d)
        /\ HasPrefix(q[Len(q)], "part.")
        /\ FileDiffers(f, g, q)

\* C29: in every Put, PutWithMetadata and CompleteMultipart, no step creates,
\* writes or moves in a part file of the destination once the call has
\* entered writeMeta (so its metadata write comes after all its part writes
\* and renames), and a call that returns an error without having entered
\* writeMeta has changed neither data.meta nor data.meta.tmp.
MetadataAfterParts ==
    [][\A c \in Callers :
          (/\ procs[c].pc # "done"
           /\ procs'[c] # procs[c]
           /\ procs[c].op \in {"Put", "PutWithMetadata", "CompleteMultipart"}) =>
              /\ PartsWritten(fs, fs', ObjDir(procs[c])) =>
                    ~hist.metaBegun[c] /\ ~InWriteMeta(procs[c])
              /\ (/\ procs'[c].pc = "done"
                  /\ procs'[c].err # ""
                  /\ ~hist'.metaBegun[c]) => ~hist'.metaChanged[c]]_vars

\* A CompleteMultipart has returned nil: part.2 was moved into the object
\* directory, then the metadata record was written.
CompletedWithMetadataLast ==
    \E c \in Callers :
        /\ procs[c].op = "CompleteMultipart"
        /\ procs[c].pc = "done"
        /\ procs[c].err = ""
        /\ hist.metaBegun[c]
        /\ hist.metaChanged[c]
        /\ Append(ObjDir(procs[c]), "part.2") \in DOMAIN fs.files
        /\ MetaState(fs, ObjDir(procs[c])).present

\* The readers a Get call opened: all of its parts, or those before the one
\* whose os.Open failed.
Opened(p) == IF p.err # "" THEN 1..(p.i - 1) ELSE 1..Len(p.parts)

\* Whether a Get call and its stream are over: Get returned an error, the
\* stream was read to EOF, or Close was called on it.
StreamOver(p) == p.op = "Get" /\ p.pc \in {"done", "closed"}

\* C30: Close is never called twice on a reader of Get, and once Get has
\* returned an error, its stream has been read to EOF or Close has been
\* called on it, every reader Get opened has been closed and none of its
\* handles is open.
GetNeverLeaks ==
    \A c \in Callers :
        LET p == procs[c]
        IN  /\ \A i, j \in 1..Len(p.closed) : p.closed[i] = p.closed[j] => i = j
            /\ StreamOver(p) =>
                  /\ {p.closed[i] : i \in 1..Len(p.closed)} = Opened(p)
                  /\ \A h \in DOMAIN fs.open : h[1] # c

\* A Get opened part.1 and failed to open the next part, which a Delete had
\* removed in between: it closed the reader of part.1 before it returned.
GetClosedReadersOnOpenError ==
    \E c \in Callers :
        /\ procs[c].op = "Get"
        /\ procs[c].pc = "done"
        /\ procs[c].err # ""
        /\ procs[c].closed = <<1>>
        /\ \A h \in DOMAIN fs.open : h[1] # c

\* The readers of caller c's Get that are open.
OpenReaders(c) == {h \in DOMAIN fs.open : h[1] = c}

\* C31: from the call to Get to the end of its stream at most one part file
\* of the object is open for the caller, and the reader of part i+1 is open
\* only when Close has been called on the reader of part i.
GetHoldsOneHandle ==
    \A c \in Callers :
        procs[c].op = "Get" =>
            /\ Cardinality(OpenReaders(c)) <= 1
            /\ \A h \in OpenReaders(c) :
                  h[2] > 1 =>
                      \E j \in 1..Len(procs[c].closed) : procs[c].closed[j] = h[2] - 1

\* The object directory both callers of CompleteSpec complete into.
SharedDir == ObjDir(CompleteMultipartCall("b", "a", "", NilMeta))

ConcurrentMetadataWhole ==
    /\ \A c \in Callers :
          (procs[c].op = "GetMetadata" /\ procs[c].pc = "done") =>
              \/ /\ procs[c].err = "ENOENT"
                 /\ \E s \in hist.seen[c] : ~s.present
              \/ /\ procs[c].err = ""
                 /\ \E s \in hist.seen[c] :
                       /\ s.present
                       /\ s.data \in StoredMetas
                       /\ UnmarshalMeta(s.data).err = ""
                       /\ UnmarshalMeta(s.data).meta = procs[c].outMeta
    /\ (\A c \in Callers : procs[c].pc = "done") =>
          \A c \in Callers :
              (procs[c].op # "idle" /\ MetaState(fs, ObjDir(procs[c])).present) =>
                  MetaState(fs, ObjDir(procs[c])).data \in StoredMetas

\* The staged file of part n of call p's session.
StagedPart(p, n) == Append(PartDir(p), "part." \o Itoa(n))

\* C34: a successful UploadPart leaves the staged part of its number with
\* exactly the uploaded bytes and every other file (the other staged parts
\* of the session, the other sessions, the committed objects) as it was, the
\* same call made again changes nothing, and a successful CompleteMultipart
\* commits each part with the bytes last uploaded under its number.
UploadPartExact ==
    [][nops' = nops + 1 =>
          /\ (last'.p.op = "UploadPart" /\ last'.p.err = "") =>
                /\ fs'.files = Put1(fs.files, StagedPart(last'.p, last'.p.partNumber),
                                    last'.p.body)
                /\ fs.dirs \subseteq fs'.dirs
                /\ Run(fs', UploadPartCall(last'.p.bucket, last'.p.key,
                                           last'.p.uploadID, last'.p.partNumber,
                                           last'.p.body), 0).fs = fs'
          /\ (last'.p.op = "CompleteMultipart" /\ last'.p.err = "") =>
                \A n \in PartNumbers :
                    StagedPart(last'.p, n) \in DOMAIN fs.files =>
                        /\ Append(ObjDir(last'.p), "part." \o Itoa(n)) \in DOMAIN fs'.files
                        /\ fs'.files[Append(ObjDir(last'.p), "part." \o Itoa(n))]
                              = fs.files[StagedPart(last'.p, n)]]_vars

\* An UploadPart has replaced the bytes of a part of a live session that has
\* another part staged as well.
UploadReplacedStagedPart ==
    /\ last.p.op = "UploadPart"
    /\ last.p.err = ""
    /\ last.p.partNumber \in DOMAIN last.staged
    /\ last.staged[last.p.partNumber] # last.p.body
    /\ DOMAIN last.staged # {last.p.partNumber}
    /\ fs.files[StagedPart(last.p, last.p.partNumber)] = last.p.body

\* The text after "part." in the name of a part file.
PartSuffix(q) == SubSeq(q[Len(q)], Len("part.") + 1, Len(q[Len(q)]))

\* C35: every part file, in a staging area or in an object directory, has a
\* part number of at least 1; an upload whose part number is zero, negative
\* or no number stores none.
PartNumbersPositive ==
    \A q \in DOMAIN fs.files :
        HasPrefix(q[Len(q)], "part.") =>
            /\ PartSuffix(q) # ""
            /\ IsDigits(PartSuffix(q))
            /\ Atoi(PartSuffix(q)) >= 1

\* C36: for a request without an X-Amz-Content-Sha256 header the validator
\* reads the client's body once when it reaches the payload hash (and not at
\* all when it rejects the request before), hashes exactly the bytes read,
\* and the handler of an admitted request reads from the request the bytes
\* the client sent, and stores those; a request is admitted only with the
\* body its signature was made for, the empty one included.
PayloadReplayable ==
    (resp.served /\ HeaderGet(req, "X-Amz-Content-Sha256") = "") =>
        /\ resp.reads = IF resp.bodyRead THEN 1 ELSE 0
        /\ resp.bodyRead => resp.hashed = req.body
        /\ Admitted =>
              /\ resp.bodyRead
              /\ resp.body = req.body
              /\ Len(resp.body) = Len(sent.orig.body)
              /\ req.body = sent.orig.body
              /\ resp.call.op = "PutWithMetadata" => resp.call.body = req.body

\* A PUT of two bytes signed without a payload hash header was admitted, the
\* validator having read the body, and the object holds the two bytes.
BufferedBodyStored ==
    /\ resp.served /\ Admitted
    /\ HeaderGet(req, "X-Amz-Content-Sha256") = ""
    /\ req.method = "PUT" /\ req.body = "AB"
    /\ resp.bodyRead /\ resp.reads = 1 /\ resp.body = "AB"
    /\ GetOf(fs, "b", "a").data = "AB"


(***************************************************************************)
(* What a call leaves alone, under NamespaceSpec.                          *)
(***************************************************************************)
\* Key k is among the keys List returns for bucket b.
Listed(f, b, k) ==
    \E i \in DOMAIN ListOf(f, JoinPath(Root, b), "") :
        ListOf(f, JoinPath(Root, b), "")[i] = k

\* What Get and GetMetadata return for key k of bucket b.
Readout(f, b, k) ==
    [err |-> GetOf(f, b, k).err, data |-> GetOf(f, b, k).data,
     metaErr |-> GetMetadataOf(f, b, k).err,
     meta |-> GetMetadataOf(f, b, k).outMeta]

\* C37: a Delete of key k1 leaves every other key k2 of the bucket as it
\* was, also when k1 is a path prefix of k2: Get and GetMetadata of k2
\* return what they returned before, and List still has k2 if it had it.
DeleteOnlyAddressed ==
    [][(/\ nops' = nops + 1
        /\ last'.p.op = "Delete"
        /\ last'.p.key \in PrefixKeys)
       => \A k2 \in PrefixKeys \ {last'.p.key} :
              /\ Readout(fs', last'.p.bucket, k2) = Readout(fs, last'.p.bucket, k2)
              /\ Listed(fs, last'.p.bucket, k2) => Listed(fs', last'.p.bucket, k2)]_vars

\* The files and directories that do not lie in the directory of bucket b.
Outside(f, b) ==
    [files |-> [q \in {x \in DOMAIN f.files : ~IsUnder(x, JoinPath(Root, b))}
                   |-> f.files[q]],
     dirs |-> {d \in f.dirs : ~IsUnder(d, JoinPath(Root, b))}]

\* The bucket metadata and the staged parts of bucket b, and whether the
\* bucket directory and its staging namespace exist.
BucketOwn(f, b) ==
    [files |-> [q \in {x \in DOMAIN f.files :
                          \/ x = Append(JoinPath(Root, b), ".bucket.meta")
                          \/ IsUnder(x, Append(JoinPath(Root, b), ".multipart"))}
                   |-> f.files[q]],
     dirs |-> {d \in f.dirs : \/ d = JoinPath(Root, b)
                              \/ IsUnder(d, Append(JoinPath(Root, b), ".multipart"))}]

\* C39: a call addressed to a bucket, whatever its key and upload ID,
\* creates, changes and removes nothing outside the directory of that
\* bucket, and a Delete leaves the bucket directory, the bucket metadata
\* and the staging namespace of its bucket as they were.
BucketIsolation ==
    [][(nops' = nops + 1)
       => /\ Outside(fs', last'.p.bucket) = Outside(fs, last'.p.bucket)
          /\ last'.p.op = "Delete"
                 => BucketOwn(fs', last'.p.bucket) = BucketOwn(fs, last'.p.bucket)]_vars


\* C38: after a successful CompleteMultipart of a session with staged
\* parts, the object holds exactly the parts the session staged, also when
\* the key held parts of other numbers before (none of them is left), Get
\* returns those parts and nothing else, and the staging area of the upload
\* ID is gone.
CompleteReplacesObject ==
    (/\ last.p.op = "CompleteMultipart" /\ last.p.err = ""
     /\ DOMAIN last.staged # {}) =>
        /\ PartsByNumber(fs, ObjDir(last.p)) = last.staged
        /\ Len(GetOf(fs, last.p.bucket, last.p.key).data)
               = Len(NumericConcat(last.staged))
        /\ PartDir(last.p) \notin fs.dirs

====
